---- MODULE Spec2Model ----
(***************************************************************************)
(* RTerm: the escape-sequence parser (src/term/ansi.rs), the terminal grid *)
(* it mutates (src/term/grid.rs) and the reader-thread / main-loop hand-   *)
(* over of PTY output (src/pty.rs, src/main.rs).                           *)
(*                                                                         *)
(* Rust vectors are modelled as TLA+ sequences: the source's 0-based index *)
(* i is position i + 1 of the sequence.  Bytes and chars are their codes.  *)
(***************************************************************************)
EXTENDS Integers, Sequences, FiniteSets, TLC

VARIABLES
    parser,     \* AnsiParser: state, params, current_param, intermediate
    grid,       \* Grid: cells, scrollback, cols, rows, cursor, current_style
    last,       \* history: the call that produced this state and what it started from
    steps,      \* calls still to be explored in this behaviour
    base,       \* SpecResume: parser and grid before the first of the calls
    fed,        \* SpecResume: the bytes handed over since base, in order
    queue,      \* SpecPty: the bounded channel between reader and main loop
    reader,     \* SpecPty: the reader thread (position, chunk being sent)
    main,       \* SpecPty: the main loop: draining, handling its event, or exited
    readlog,    \* SpecPty: chunks the reader has read so far, in order
    processed,  \* SpecPty: chunks handed to AnsiParser.process, in order
    renderer,   \* SpecPty: Renderer.size, the window's physical size
    turn,       \* SpecPty: the current turn of the main loop (history)
    obs         \* SpecPty: what was sent, received, requested of the child (history)

coreVars == <<parser, grid, last, steps>>
resumeVars == <<base, fed>>
ptyVars == <<queue, reader, main, readlog, processed, renderer, turn, obs>>
vars == <<parser, grid, last, steps, base, fed, queue, reader, main, readlog, processed,
          renderer, turn, obs>>

----------------------------------------------------------------------------
(* Bounds of the model.                                                    *)

\* Largest grid the window gives (sizes are drawn from 1 and the largest).
MaxCols == 2
MaxRows == 2
\* Calls (process / resize) explored per behaviour.
MaxSteps == 4
\* Scrollback capacity.  The program configures 10_000 rows
\* (config.rs SCROLLBACK_LINES); the model keeps the same code path with a
\* capacity small enough for the eviction at full capacity to happen.
SCROLLBACK_LINES == 2

U16 == 65536

Min(a, b) == IF a < b THEN a ELSE b
Max(a, b) == IF a > b THEN a ELSE b
\* usize::saturating_sub
saturating_sub(a, b) == IF a > b THEN a - b ELSE 0

----------------------------------------------------------------------------
(* config.rs: colours.  A colour [f32; 4] is kept as its four components   *)
(* over the common denominator 255000, so that a configured constant       *)
(* (given in thousandths) and a true-colour component n / 255.0 compare as *)
(* the floats do.                                                          *)

Color(r, g, b) == <<r * 255, g * 255, b * 255, 255000>>
TrueColor(r, g, b) == <<r * 1000, g * 1000, b * 1000, 255000>>

BG_COLOR == Color(118, 118, 180)
FG_COLOR == Color(804, 840, 957)

ANSI_COLORS ==
    << Color(275, 298, 368), Color(953, 545, 659), Color(651, 890, 631),
       Color(976, 890, 686), Color(537, 706, 980), Color(961, 718, 898),
       Color(580, 894, 925), Color(725, 765, 843),
       Color(353, 376, 490), Color(953, 545, 659), Color(651, 890, 631),
       Color(976, 890, 686), Color(537, 706, 980), Color(961, 718, 898),
       Color(580, 894, 925), Color(655, 686, 776) >>

----------------------------------------------------------------------------
(* grid.rs: CellStyle, Cell, Grid                                          *)

CellStyleDefault ==
    [fg |-> FG_COLOR, bg |-> BG_COLOR, bold |-> FALSE, italic |-> FALSE,
     underline |-> FALSE, inverse |-> FALSE]

CellDefault == [c |-> 32, style |-> CellStyleDefault, dirty |-> TRUE]

BlankRow(cols) == [x \in 1..cols |-> CellDefault]

\* Grid::new.  panic is the model's record that an operation indexed outside
\* a vector (or underflowed an unsigned subtraction): the program aborts there.
GridNew(cols, rows) ==
    [cells |-> [y \in 1..rows |-> BlankRow(cols)],
     scrollback |-> <<>>,
     cols |-> cols, rows |-> rows,
     cursor_x |-> 0, cursor_y |-> 0,
     current_style |-> CellStyleDefault,
     dirty |-> TRUE,
     panic |-> FALSE]

\* self.cells[y][x] is a valid place of the matrix, inside the grid's dimensions
InMatrix(g, x, y) ==
    /\ y >= 0 /\ y < Len(g.cells) /\ y < g.rows
    /\ x >= 0 /\ x < Len(g.cells[y + 1]) /\ x < g.cols

\* self.cells[y][x] = v for every (x, y) of S; an index outside panics
SetCells(g, S, v) ==
    [g EXCEPT
       !.cells = [y \in 1..Len(g.cells) |->
                    [x \in 1..Len(g.cells[y]) |->
                       IF <<x - 1, y - 1>> \in S THEN v ELSE g.cells[y][x]]],
       !.panic = g.panic \/ (\E p \in S : ~InMatrix(g, p[1], p[2]))]

\* scroll_up that reuses the row it took off the top as the new bottom row
scroll_up_recycles_row(g) ==
    LET sb == IF Len(g.scrollback) >= SCROLLBACK_LINES
              THEN Tail(g.scrollback) ELSE g.scrollback
    IN  IF Len(g.cells) = 0
        THEN [g EXCEPT !.scrollback = sb, !.panic = TRUE]
        ELSE [g EXCEPT !.scrollback = Append(sb, Head(g.cells)),
                       !.cells = Append(Tail(g.cells), Head(g.cells)),
                       !.dirty = TRUE]

\* scroll_up that keeps one row too many: > where the code has >=
scroll_up_late_eviction(g) ==
    LET sb == IF Len(g.scrollback) > SCROLLBACK_LINES
              THEN Tail(g.scrollback) ELSE g.scrollback
    IN  IF Len(g.cells) = 0
        THEN [g EXCEPT !.scrollback = sb, !.panic = TRUE]
        ELSE [g EXCEPT !.scrollback = Append(sb, Head(g.cells)),
                       !.cells = Append(Tail(g.cells), BlankRow(g.cols)),
                       !.dirty = TRUE]

\* scroll_up that forgets to append the fresh bottom row
scroll_up_no_new_row(g) ==
    LET sb == IF Len(g.scrollback) >= SCROLLBACK_LINES
              THEN Tail(g.scrollback) ELSE g.scrollback
    IN  IF Len(g.cells) = 0
        THEN [g EXCEPT !.scrollback = sb, !.panic = TRUE]
        ELSE [g EXCEPT !.scrollback = Append(sb, Head(g.cells)),
                       !.cells = Tail(g.cells),
                       !.dirty = TRUE]

\* Grid::scroll_up
scroll_up(g) ==
    LET sb == IF Len(g.scrollback) >= SCROLLBACK_LINES
              THEN Tail(g.scrollback) ELSE g.scrollback
    IN  IF Len(g.cells) = 0
        THEN [g EXCEPT !.scrollback = sb, !.panic = TRUE]
        ELSE [g EXCEPT !.scrollback = Append(sb, Head(g.cells)),
                       !.cells = Append(Tail(g.cells), BlankRow(g.cols)),
                       !.dirty = TRUE]

\* newline as a bare line feed: the column is kept
newline_keeps_column(g) ==
    IF g.cursor_y + 1 >= g.rows
    THEN scroll_up(g)
    ELSE [g EXCEPT !.cursor_y = g.cursor_y + 1]

\* Grid::newline
newline(g) ==
    LET g1 == [g EXCEPT !.cursor_x = 0]
    IN  IF g1.cursor_y + 1 >= g1.rows
        THEN scroll_up(g1)
        ELSE [g1 EXCEPT !.cursor_y = g1.cursor_y + 1]

\* write_char that wraps as soon as it has filled the last column
write_char_eager_wrap(g, c) ==
    LET g1 == IF g.cursor_x >= g.cols THEN newline(g) ELSE g
        g2 == [SetCells(g1, {<<g1.cursor_x, g1.cursor_y>>},
                        [c |-> c, style |-> g1.current_style, dirty |-> TRUE])
                 EXCEPT !.cursor_x = g1.cursor_x + 1, !.dirty = TRUE]
    IN  IF g1.cursor_y < g1.rows /\ g1.cursor_x < g1.cols
        THEN IF g2.cursor_x >= g2.cols THEN newline(g2) ELSE g2
        ELSE g1

\* Grid::write_char
write_char(g, c) ==
    LET g1 == IF g.cursor_x >= g.cols THEN newline(g) ELSE g
    IN  IF g1.cursor_y < g1.rows /\ g1.cursor_x < g1.cols
        THEN [SetCells(g1, {<<g1.cursor_x, g1.cursor_y>>},
                       [c |-> c, style |-> g1.current_style, dirty |-> TRUE])
                EXCEPT !.cursor_x = g1.cursor_x + 1, !.dirty = TRUE]
        ELSE g1

\* Grid::carriage_return
carriage_return(g) == [g EXCEPT !.cursor_x = 0]

\* backspace that erases with the pen: a space in the current style
backspace_erases_with_pen(g) ==
    IF g.cursor_x > 0
    THEN [SetCells(g, {<<g.cursor_x - 1, g.cursor_y>>},
                   [c |-> 32, style |-> g.current_style, dirty |-> TRUE])
            EXCEPT !.cursor_x = g.cursor_x - 1, !.dirty = TRUE]
    ELSE g

\* Grid::backspace
backspace(g) ==
    IF g.cursor_x > 0
    THEN [SetCells(g, {<<g.cursor_x - 1, g.cursor_y>>}, CellDefault)
            EXCEPT !.cursor_x = g.cursor_x - 1, !.dirty = TRUE]
    ELSE g

\* Grid::tab.  cols - 1 on usize: with cols = 0 it underflows (abort in a
\* build with overflow checks, usize::MAX otherwise).
tab(g) ==
    LET next_tab == ((g.cursor_x \div 8) + 1) * 8
    IN  IF g.cols = 0
        THEN [g EXCEPT !.cursor_x = next_tab, !.panic = TRUE]
        ELSE [g EXCEPT !.cursor_x = Min(next_tab, g.cols - 1)]

\* clear that empties the scrollback with the screen
clear_with_scrollback(g) ==
    [g EXCEPT !.cells = [y \in 1..Len(g.cells) |->
                           [x \in 1..Len(g.cells[y]) |-> CellDefault]],
              !.scrollback = <<>>,
              !.cursor_x = 0, !.cursor_y = 0, !.dirty = TRUE]

\* Grid::clear
clear(g) ==
    [g EXCEPT !.cells = [y \in 1..Len(g.cells) |->
                           [x \in 1..Len(g.cells[y]) |-> CellDefault]],
              !.cursor_x = 0, !.cursor_y = 0, !.dirty = TRUE]

\* Grid::clear_to_end_of_line
clear_to_end_of_line(g) ==
    [SetCells(g, {<<x, g.cursor_y>> : x \in g.cursor_x..(g.cols - 1)}, CellDefault)
       EXCEPT !.dirty = TRUE]

\* clear_to_end_of_screen that stops at the end of the cursor's row
clear_to_end_of_screen_row_only(g) == clear_to_end_of_line(g)

\* Grid::clear_to_end_of_screen
clear_to_end_of_screen(g) ==
    LET g1 == clear_to_end_of_line(g)
    IN  [SetCells(g1, {<<x, y>> : x \in 0..(g1.cols - 1),
                                  y \in (g1.cursor_y + 1)..(g1.rows - 1)}, CellDefault)
           EXCEPT !.dirty = TRUE]

\* Grid::clear_line
clear_line(g, y) ==
    IF y < g.rows
    THEN [SetCells(g, {<<x, y>> : x \in 0..(g.cols - 1)}, CellDefault)
            EXCEPT !.dirty = TRUE]
    ELSE g

\* move_cursor that takes its arguments as (row, column)
move_cursor_transposed(g, x, y) ==
    [g EXCEPT !.cursor_x = Min(y, saturating_sub(g.cols, 1)),
              !.cursor_y = Min(x, saturating_sub(g.rows, 1))]

\* move_cursor that trusts its arguments: no clamp into the grid
move_cursor_unclamped(g, x, y) == [g EXCEPT !.cursor_x = x, !.cursor_y = y]

\* Grid::move_cursor
move_cursor(g, x, y) ==
    [g EXCEPT !.cursor_x = Min(x, saturating_sub(g.cols, 1)),
              !.cursor_y = Min(y, saturating_sub(g.rows, 1))]

\* move_cursor_relative without the floor at 0
move_cursor_relative_no_floor(g, dx, dy) ==
    move_cursor(g, g.cursor_x + dx, g.cursor_y + dy)

\* Grid::move_cursor_relative
move_cursor_relative(g, dx, dy) ==
    move_cursor(g, Max(g.cursor_x + dx, 0), Max(g.cursor_y + dy, 0))

\* resize that leaves the cursor where it was: no re-clamp
resize_cursor_kept(g, cols, rows) ==
    LET copied == {<<x, y>> : x \in 0..(Min(cols, g.cols) - 1),
                              y \in 0..(Min(rows, g.rows) - 1)}
    IN  [g EXCEPT
           !.cells = [y \in 1..rows |->
                        [x \in 1..cols |->
                           IF <<x - 1, y - 1>> \in copied /\ InMatrix(g, x - 1, y - 1)
                           THEN g.cells[y][x] ELSE CellDefault]],
           !.cols = cols, !.rows = rows,
           !.dirty = TRUE,
           !.panic = g.panic \/ (\E p \in copied : ~InMatrix(g, p[1], p[2]))]

\* resize that allocates the new matrix and copies nothing into it
resize_no_copy(g, cols, rows) ==
    [g EXCEPT
       !.cells = [y \in 1..rows |-> BlankRow(cols)],
       !.cols = cols, !.rows = rows,
       !.cursor_x = Min(g.cursor_x, saturating_sub(cols, 1)),
       !.cursor_y = Min(g.cursor_y, saturating_sub(rows, 1)),
       !.dirty = TRUE]

\* Grid::resize
resize(g, cols, rows) ==
    LET copied == {<<x, y>> : x \in 0..(Min(cols, g.cols) - 1),
                              y \in 0..(Min(rows, g.rows) - 1)}
    IN  [g EXCEPT
           !.cells = [y \in 1..rows |->
                        [x \in 1..cols |->
                           IF <<x - 1, y - 1>> \in copied /\ InMatrix(g, x - 1, y - 1)
                           THEN g.cells[y][x] ELSE CellDefault]],
           !.cols = cols, !.rows = rows,
           !.cursor_x = Min(g.cursor_x, saturating_sub(cols, 1)),
           !.cursor_y = Min(g.cursor_y, saturating_sub(rows, 1)),
           !.dirty = TRUE,
           !.panic = g.panic \/ (\E p \in copied : ~InMatrix(g, p[1], p[2]))]

----------------------------------------------------------------------------
(* ansi.rs: AnsiParser                                                     *)

ESC == 27
BEL == 7
Digits == 48..57            \* b'0'..=b'9'
Semicolon == 59             \* b';'
Intermediates == {63, 62, 33}   \* b'?' | b'>' | b'!'

\* AnsiParser::new.  overflow is the model's record that the u16 arithmetic
\* of the digit handler left the 16-bit range (an abort in a build with
\* overflow checks; the wrapped value is kept otherwise).
ParserNew ==
    [state |-> "Ground", params |-> <<>>, current_param |-> 0,
     intermediate |-> <<>>, overflow |-> FALSE]

\* reset that returns to Ground and leaves the parameters where they are
reset_keeps_params(p) == [p EXCEPT !.state = "Ground"]

\* AnsiParser::reset
reset(p) ==
    [p EXCEPT !.state = "Ground", !.params = <<>>, !.current_param = 0,
              !.intermediate = <<>>]

\* get_param without the zero filter: an explicit 0 is returned as 0
get_param_zero_kept(p, idx, default) ==
    IF idx < Len(p.params) THEN p.params[idx + 1] ELSE default

\* AnsiParser::get_param
get_param(p, idx, default) ==
    IF idx < Len(p.params) /\ p.params[idx + 1] > 0
    THEN p.params[idx + 1] ELSE default

\* the params.push(current_param) that H, f, J, K and m do before dispatch
push_current(p) == [p EXCEPT !.params = Append(p.params, p.current_param)]

\* process_sgr, the arms of 38 and 48: the extended form that starts at
\* index i (0-based) is 5;n when a parameter exists at i + 2 and the one at
\* i + 1 is 5, else 2;r;g;b when one exists at i + 4 and the one at i + 1 is 2
ext_palette(params, i) == i + 2 < Len(params) /\ params[i + 2] = 5
ext_true_color(params, i) == i + 4 < Len(params) /\ params[i + 2] = 2

\* the colour the extended form at i sets, old when it sets none
extended_color(params, i, old) ==
    IF ext_palette(params, i)
    THEN IF params[i + 3] < 16 THEN ANSI_COLORS[params[i + 3] + 1] ELSE old
    ELSE IF ext_true_color(params, i)
    THEN TrueColor(params[i + 3], params[i + 4], params[i + 5])
    ELSE old

\* an extended form whose parameters are left in the scan
extended_skip_none(params, i) == 0

\* the i += 2 and i += 4 of the extended forms: the parameters they consume
extended_skip(params, i) ==
    IF ext_palette(params, i) THEN 2
    ELSE IF ext_true_color(params, i) THEN 4
    ELSE 0

\* AnsiParser::process_sgr, the while loop from index i (0-based)
RECURSIVE sgr_loop(_, _, _)
sgr_loop(params, i, style) ==
    IF i >= Len(params) THEN style
    ELSE
      LET v == params[i + 1]
      IN
      CASE v = 0 -> sgr_loop(params, i + 1, CellStyleDefault)
        [] v = 1 -> sgr_loop(params, i + 1, [style EXCEPT !.bold = TRUE])
        [] v = 3 -> sgr_loop(params, i + 1, [style EXCEPT !.italic = TRUE])
        [] v = 4 -> sgr_loop(params, i + 1, [style EXCEPT !.underline = TRUE])
        [] v = 7 -> sgr_loop(params, i + 1, [style EXCEPT !.inverse = TRUE])
        [] v = 22 -> sgr_loop(params, i + 1, [style EXCEPT !.bold = FALSE])
        [] v = 23 -> sgr_loop(params, i + 1, [style EXCEPT !.italic = FALSE])
        [] v = 24 -> sgr_loop(params, i + 1, [style EXCEPT !.underline = FALSE])
        [] v = 27 -> sgr_loop(params, i + 1, [style EXCEPT !.inverse = FALSE])
        [] v \in 30..37 ->
             sgr_loop(params, i + 1, [style EXCEPT !.fg = ANSI_COLORS[v - 30 + 1]])
        [] v = 38 ->
             sgr_loop(params, i + extended_skip(params, i) + 1,
                      [style EXCEPT !.fg = extended_color(params, i, style.fg)])
        [] v = 39 -> sgr_loop(params, i + 1, [style EXCEPT !.fg = FG_COLOR])
        [] v \in 40..47 ->
             sgr_loop(params, i + 1, [style EXCEPT !.bg = ANSI_COLORS[v - 40 + 1]])
        [] v = 48 ->
             sgr_loop(params, i + extended_skip(params, i) + 1,
                      [style EXCEPT !.bg = extended_color(params, i, style.bg)])
        [] v = 49 -> sgr_loop(params, i + 1, [style EXCEPT !.bg = BG_COLOR])
        [] v \in 90..97 ->
             sgr_loop(params, i + 1, [style EXCEPT !.fg = ANSI_COLORS[v - 90 + 8 + 1]])
        [] v \in 100..107 ->
             sgr_loop(params, i + 1, [style EXCEPT !.bg = ANSI_COLORS[v - 100 + 8 + 1]])
        [] OTHER -> sgr_loop(params, i + 1, style)

\* process_sgr that repaints the cells already written with the new pen
process_sgr_restyles(p, g) ==
    LET style == IF Len(p.params) = 0 THEN CellStyleDefault
                 ELSE sgr_loop(p.params, 0, g.current_style)
    IN  [g EXCEPT !.current_style = style,
                  !.cells = [y \in 1..Len(g.cells) |->
                               [x \in 1..Len(g.cells[y]) |->
                                  [g.cells[y][x] EXCEPT !.style = style]]]]

\* AnsiParser::process_sgr
process_sgr(p, g) ==
    IF Len(p.params) = 0
    THEN [g EXCEPT !.current_style = CellStyleDefault]
    ELSE [g EXCEPT !.current_style = sgr_loop(p.params, 0, g.current_style)]

\* AnsiParser::ground
ground(st, byte) ==
    LET p == st.parser
        g == st.grid
    IN
    CASE byte = ESC -> [st EXCEPT !.parser.state = "Escape"]
      [] byte = BEL -> st
      [] byte = 8 -> [st EXCEPT !.grid = backspace(g)]
      [] byte = 9 -> [st EXCEPT !.grid = tab(g)]
      [] byte \in {10, 11, 12} -> [st EXCEPT !.grid = newline(g)]
      [] byte = 13 -> [st EXCEPT !.grid = carriage_return(g)]
      [] byte \in 32..126 -> [st EXCEPT !.grid = write_char(g, byte)]
      [] byte \in 192..255 -> [st EXCEPT !.grid = write_char(g, 63)]
      [] OTHER -> st

\* the last arm of escape that hands the byte to ground once the state is
\* Ground again
escape_abandoned_replayed(st, byte) ==
    ground([st EXCEPT !.parser.state = "Ground"], byte)

\* AnsiParser::escape, the arm of every byte without an arm of its own:
\* self.state = State::Ground and nothing else
escape_abandoned(st, byte) == [st EXCEPT !.parser.state = "Ground"]

\* AnsiParser::escape
escape(st, byte) ==
    LET p == st.parser
        g == st.grid
    IN
    CASE byte = 91 ->       \* b'['
           [st EXCEPT !.parser = [p EXCEPT !.state = "Csi", !.params = <<>>,
                                           !.current_param = 0,
                                           !.intermediate = <<>>]]
      [] byte = 93 ->       \* b']'
           [st EXCEPT !.parser.state = "Osc"]
      [] byte = 99 ->       \* b'c'
           [st EXCEPT !.grid = [clear(g) EXCEPT !.current_style = CellStyleDefault],
                      !.parser.state = "Ground"]
      [] byte = 68 ->       \* b'D'
           [st EXCEPT !.grid = newline(g), !.parser.state = "Ground"]
      [] byte = 69 ->       \* b'E'
           [st EXCEPT !.grid = carriage_return(newline(g)),
                      !.parser.state = "Ground"]
      [] byte = 77 ->       \* b'M'
           [st EXCEPT !.grid = IF g.cursor_y > 0
                               THEN [g EXCEPT !.cursor_y = g.cursor_y - 1]
                               ELSE g,
                      !.parser.state = "Ground"]
      [] OTHER -> escape_abandoned(st, byte)

\* the ignored arms that set the scrolling region as terminals do: the
\* cursor goes home
csi_ignored_homes(p, g) == [parser |-> reset(p), grid |-> move_cursor(g, 0, 0)]

\* AnsiParser::csi, the arms of r, h, l, c, n and of every other byte:
\* self.reset() and nothing else
csi_ignored(p, g) == [parser |-> reset(p), grid |-> g]

\* AnsiParser::csi
csi(st, byte) ==
    LET p == st.parser
        g == st.grid
        pp == push_current(p)
    IN
    CASE byte \in Digits ->
           LET v == p.current_param * 10 + (byte - 48)
           IN  [st EXCEPT !.parser = [p EXCEPT !.state = "CsiParam",
                                               !.current_param = v % U16,
                                               !.overflow = p.overflow \/ v >= U16]]
      [] byte = Semicolon ->
           [st EXCEPT !.parser = [pp EXCEPT !.current_param = 0]]
      [] byte \in Intermediates ->
           [st EXCEPT !.parser.intermediate = Append(p.intermediate, byte)]
      [] byte = 65 ->       \* b'A'
           [parser |-> reset(p),
            grid |-> move_cursor_relative(g, 0, -get_param(p, 0, 1))]
      [] byte = 66 ->       \* b'B'
           [parser |-> reset(p),
            grid |-> move_cursor_relative(g, 0, get_param(p, 0, 1))]
      [] byte = 67 ->       \* b'C'
           [parser |-> reset(p),
            grid |-> move_cursor_relative(g, get_param(p, 0, 1), 0)]
      [] byte = 68 ->       \* b'D'
           [parser |-> reset(p),
            grid |-> move_cursor_relative(g, -get_param(p, 0, 1), 0)]
      [] byte \in {72, 102} ->      \* b'H' | b'f'
           LET row == saturating_sub(get_param(pp, 0, 1), 1)
               col == saturating_sub(get_param(pp, 1, 1), 1)
           IN  [parser |-> reset(pp), grid |-> move_cursor(g, col, row)]
      [] byte = 74 ->       \* b'J'
           LET n == get_param(pp, 0, 0)
           IN  [parser |-> reset(pp),
                grid |-> CASE n = 0 -> clear_to_end_of_screen(g)
                           [] n = 1 -> g
                           [] n \in {2, 3} -> clear(g)
                           [] OTHER -> g]
      [] byte = 75 ->       \* b'K'
           LET n == get_param(pp, 0, 0)
           IN  [parser |-> reset(pp),
                grid |-> CASE n = 0 -> clear_to_end_of_line(g)
                           [] n = 1 -> g
                           [] n = 2 -> clear_line(g, g.cursor_y)
                           [] OTHER -> g]
      [] byte = 109 ->      \* b'm'
           [parser |-> reset(pp), grid |-> process_sgr(pp, g)]
      [] OTHER ->           \* r, h, l, c, n and every other byte
           csi_ignored(p, g)

\* osc that prints its payload: every byte but the terminators is written
osc_prints_payload(st, byte) ==
    IF byte \in {BEL, ESC}
    THEN [st EXCEPT !.parser.state = "Ground"]
    ELSE [st EXCEPT !.grid = write_char(st.grid, byte)]

\* osc that takes only BEL as the terminator
osc_bel_only(st, byte) ==
    IF byte = BEL
    THEN [st EXCEPT !.parser.state = "Ground"]
    ELSE st

\* AnsiParser::osc
osc(st, byte) ==
    IF byte \in {BEL, ESC}
    THEN [st EXCEPT !.parser.state = "Ground"]
    ELSE st

\* AnsiParser::process_byte
process_byte(st, byte) ==
    CASE st.parser.state = "Ground" -> ground(st, byte)
      [] st.parser.state = "Escape" -> escape(st, byte)
      [] st.parser.state \in {"Csi", "CsiParam"} -> csi(st, byte)
      [] st.parser.state = "Osc" -> osc(st, byte)

\* AnsiParser::process: the bytes of data, in order, from position i on
RECURSIVE process_from(_, _, _)
process_from(st, data, i) ==
    IF i > Len(data) THEN st
    ELSE process_from(process_byte(st, data[i]), data, i + 1)

\* process that starts every call from a reset parser
process_forgetful(st, data) ==
    process_from([st EXCEPT !.parser = reset(@)], data, 1)

process(st, data) == process_from(st, data, 1)

----------------------------------------------------------------------------
(* The calls the main loop makes on the parser and the grid                *)
(* (main.rs: parser.process(&data, &mut grid) per chunk of output, and     *)
(* grid.resize(cols, rows) per window resize).  Each specification below   *)
(* draws the chunks from its own set.                                      *)

Current == [parser |-> parser, grid |-> grid]

\* what the history variable keeps of a call: the call, its argument, and
\* the parser and grid it started from
Call(op, data) == [op |-> op, data |-> data, parser |-> parser, grid |-> grid]

\* pty.rs: PtyEvent
Output(data) == [kind |-> "Output", data |-> data, code |-> 0]
Exit(code) == [kind |-> "Exit", data |-> <<>>, code |-> code]

\* the data of the Output events of a sequence of events, in order
RECURSIVE OutputsOf(_)
OutputsOf(q) ==
    IF q = <<>> THEN <<>>
    ELSE IF Head(q).kind = "Output"
    THEN <<Head(q).data>> \o OutputsOf(Tail(q))
    ELSE OutputsOf(Tail(q))

\* config.rs: cell size and padding, in pixels
CELL_WIDTH == 9
CELL_HEIGHT == 22
PADDING_X == 24
PADDING_Y == 24

\* Size of the window at start.  The program opens 1280 x 850
\* (config.rs DEFAULT_WIDTH, DEFAULT_HEIGHT: 136 x 36 cells); the model
\* opens a window of 2 x 1 cells.
DEFAULT_WIDTH == 66
DEFAULT_HEIGHT == 70

\* Renderer::new: size is the window's size
RendererNew == [width |-> DEFAULT_WIDTH, height |-> DEFAULT_HEIGHT]

\* Renderer::resize: a size with a zero side is ignored
renderer_resize(r, width, height) ==
    IF width > 0 /\ height > 0
    THEN [width |-> width, height |-> height]
    ELSE r

\* (f32 as usize) of usable / cell: a negative quotient becomes 0, a
\* positive one loses its fraction
cells_in(usable, cell) == IF usable < 0 THEN 0 ELSE usable \div cell

\* grid_dimensions without the .max(1) on its results
grid_dimensions_no_floor(r) ==
    <<cells_in(r.width - PADDING_X * 2, CELL_WIDTH),
      cells_in(r.height - PADDING_Y * 2, CELL_HEIGHT)>>

\* Renderer::grid_dimensions
grid_dimensions(r) ==
    <<Max(cells_in(r.width - PADDING_X * 2, CELL_WIDTH), 1),
      Max(cells_in(r.height - PADDING_Y * 2, CELL_HEIGHT), 1)>>

\* the turn that begins with q in the channel: start counts the chunks of
\* q, pending those of them not yet handed to process; empty records that
\* try_recv returned Empty
TurnStart(q) ==
    [start |-> Len(OutputsOf(q)), pending |-> Len(OutputsOf(q)), empty |-> FALSE]

\* no message sent or received yet, no resize requested
ObsNone ==
    [sent |-> <<>>, received |-> <<>>,
     request |-> [cols |-> 0, rows |-> 0, ok |-> TRUE, grid |-> <<0, 0>>]]

\* Pty::new: an empty channel, the reader thread about to read; the main
\* loop at the top of a turn
PtyIdle ==
    /\ queue = <<>>
    /\ reader = [pc |-> "read", msg |-> Exit(0), ended |-> "no"]
    /\ main = "drain"
    /\ readlog = <<>>
    /\ processed = <<>>
    /\ renderer = RendererNew
    /\ turn = TurnStart(<<>>)
    /\ obs = ObsNone

\* the state after construction (main.rs: Grid::new(cols, rows), AnsiParser::new())
Constructed(sizes, budget) ==
    /\ \E d \in sizes : grid = GridNew(d[1], d[2])
    /\ parser = ParserNew
    /\ last = Call("new", <<>>)
    /\ steps = budget

\* main.rs: Ok(PtyEvent::Output(data)) => parser.process(&data, &mut grid)
Process(data) ==
    /\ steps > 0
    /\ ~grid.panic
    /\ LET st == process(Current, data)
       IN  /\ parser' = st.parser
           /\ grid' = st.grid
    /\ last' = Call("process", data)
    /\ steps' = steps - 1

\* main.rs: WindowEvent::Resized => grid.resize(cols, rows)
WindowResized(cols, rows) ==
    /\ steps > 0
    /\ ~grid.panic
    /\ grid' = resize(grid, cols, rows)
    /\ parser' = parser
    /\ last' = Call("resize", <<cols, rows>>)
    /\ steps' = steps - 1

----------------------------------------------------------------------------
(* Spec: grid traffic.  Single-byte chunks of the bytes that write, move,  *)
(* scroll and erase, interleaved with resizes to every size.               *)

Alphabet ==
    { ESC, 8, 9, 10, 13,            \* ESC BS TAB LF CR
      91, 77,                       \* [ M
      50, 72, 74, 75,               \* 2 H J K
      120 }                         \* x

\* ESC c, the full reset, handed over in one chunk
FullReset == <<ESC, 99>>

Chunks == {<<byte>> : byte \in Alphabet} \cup {FullReset}

\* the window sizes: the smallest and the largest in each direction
GridSizes == {1, MaxCols} \X {1, MaxRows}

Init ==
    /\ Constructed(GridSizes, MaxSteps)
    /\ base = Current
    /\ fed = <<>>
    /\ PtyIdle

Next ==
    \/ \E data \in Chunks :
         Process(data) /\ UNCHANGED <<resumeVars, ptyVars>>
    \/ \E d \in GridSizes :
         WindowResized(d[1], d[2]) /\ UNCHANGED <<resumeVars, ptyVars>>

Spec == Init /\ [][Next]_vars

----------------------------------------------------------------------------
(* Claims checked under Spec                                               *)

\* parser and grid as the final byte of the last chunk found them
Before ==
    IF last.op = "process" /\ Len(last.data) > 1
    THEN process([parser |-> last.parser, grid |-> last.grid],
                 SubSeq(last.data, 1, Len(last.data) - 1))
    ELSE [parser |-> last.parser, grid |-> last.grid]

\* the final byte of the last chunk is one of bytes and met the parser in
\* one of pstates
ByteIn(pstates, bytes) ==
    /\ last.op = "process"
    /\ Len(last.data) >= 1
    /\ last.data[Len(last.data)] \in bytes
    /\ Before.parser.state \in pstates

\* the visible part of g is that of a freshly constructed grid of its size
GridFresh(g) ==
    /\ g.cells = GridNew(g.cols, g.rows).cells
    /\ g.cursor_x = 0 /\ g.cursor_y = 0
    /\ g.current_style = CellStyleDefault

\* C3 (as claimed): whatever was processed before, processing the two bytes
\* ESC c leaves every visible cell default, the cursor at (0,0) and the pen
\* default, as in a freshly constructed grid of the same dimensions.
C3_FullResetAfterAnything ==
    (last.op = "process" /\ last.data = FullReset) => GridFresh(grid)

\* C5: no grid operation indexes outside the cell matrix: no call, after any
\* interleaving of bytes and resizes to sizes >= 1x1, reads or writes a cell
\* with a row index >= rows or a column index >= cols.
C5_NoIndexOutsideMatrix == ~grid.panic

\* C5 witness: a backspace acted with the cursor one past the last column
\* (the place a careless index would miss), on a grid that was resized.
C5_Witness ==
    /\ ByteIn({"Ground"}, {8})
    /\ Before.grid.cursor_x = Before.grid.cols
    /\ grid.cursor_x = Before.grid.cols - 1
    /\ Len(grid.scrollback) > 0
    /\ ~grid.panic

\* C7 (as claimed): after every grid mutation and every byte processed the
\* cursor is inside the grid: 0 <= cursor_x < cols and 0 <= cursor_y < rows.
C7_CursorInsideGrid ==
    /\ 0 <= grid.cursor_x /\ grid.cursor_x < grid.cols
    /\ 0 <= grid.cursor_y /\ grid.cursor_y < grid.rows

\* the last call ran write_char: a printable or UTF-8 lead byte in Ground
WroteChar == ByteIn({"Ground"}, (32..126) \cup (192..255))

\* C7 (amended): after every call 0 <= cursor_x <= cols and
\* 0 <= cursor_y < rows; cursor_x = cols is left only by write_char filling
\* the last column, and stays only while no call sets cursor_x.
C7_CursorInsideOrPendingWrap ==
    /\ 0 <= grid.cursor_x /\ grid.cursor_x <= grid.cols
    /\ 0 <= grid.cursor_y /\ grid.cursor_y < grid.rows
    /\ (grid.cursor_x = grid.cols /\ last.op # "new") =>
          \/ WroteChar
          \/ (last.op = "process" /\ Before.grid.cursor_x = Before.grid.cols)

\* C7 witness: write_char has just filled the last column of a row
C7_Witness ==
    /\ WroteChar
    /\ Before.grid.cursor_x = grid.cols - 1
    /\ grid.cursor_x = grid.cols
    /\ grid.cols = MaxCols

\* C8: the visible matrix has exactly rows rows of exactly cols cells each.
C8_MatrixShape ==
    /\ Len(grid.cells) = grid.rows
    /\ \A y \in 1..Len(grid.cells) : Len(grid.cells[y]) = grid.cols

\* C8 witness: a scroll on a grid whose width a resize had changed
C8_Witness ==
    /\ ByteIn({"Ground"}, {10})
    /\ Before.grid.cursor_y + 1 = Before.grid.rows
    /\ Len(Before.grid.scrollback) > 0
    /\ Len(Before.grid.scrollback[1]) # grid.cols
    /\ Len(grid.cells) = grid.rows

\* the last call scrolled the grid (newline on the last row: LF, VT, FF,
\* ESC D, ESC E, or a write_char wrapping there)
Scrolled ==
    /\ Before.grid.cursor_y + 1 >= Before.grid.rows
    /\ \/ ByteIn({"Ground"}, {10, 11, 12})
       \/ ByteIn({"Escape"}, {68, 69})
       \/ (WroteChar /\ Before.grid.cursor_x >= Before.grid.cols)

\* C9: the scrollback never holds more than its capacity; a scroll appends
\* the evicted top row as the newest entry, keeps the older entries in
\* order, and at full capacity discards exactly the oldest one.
C9_ScrollbackBound ==
    /\ Len(grid.scrollback) <= SCROLLBACK_LINES
    /\ Scrolled =>
         LET old == Before.grid.scrollback
             kept == IF Len(old) = SCROLLBACK_LINES THEN Tail(old) ELSE old
         IN  grid.scrollback = Append(kept, Before.grid.cells[1])

\* C9 witness: a scroll at full capacity discarded an oldest row that
\* differs from the row that took its place
C9_Witness ==
    /\ Scrolled
    /\ Len(Before.grid.scrollback) = SCROLLBACK_LINES
    /\ Len(grid.scrollback) = SCROLLBACK_LINES
    /\ Before.grid.scrollback[1] # grid.scrollback[1]

----------------------------------------------------------------------------
(* SpecCsi: CSI sequences with parameters, byte by byte, on a grid large   *)
(* enough for a move by one and a move by two to end in different places.  *)

CsiCols == 3
CsiRows == 3
CsiSteps == 4

CsiAlphabet ==
    { ESC, 91,                      \* ESC [
      48, 50, Semicolon,            \* 0 2 ;
      65, 66, 67, 68,               \* A B C D
      72, 102 }                     \* H f

\* ESC [ in one chunk
Introducer == <<ESC, 91>>
\* ESC [ 9 ; 9 H in one chunk: the cursor to the bottom-right corner
ToCorner == <<ESC, 91, 57, Semicolon, 57, 72>>

CsiChunks == {<<byte>> : byte \in CsiAlphabet} \cup {Introducer, ToCorner}

InitCsi ==
    /\ Constructed({<<CsiCols, CsiRows>>}, CsiSteps)
    /\ base = Current
    /\ fed = <<>>
    /\ PtyIdle

NextCsi ==
    \E data \in CsiChunks :
       Process(data) /\ UNCHANGED <<resumeVars, ptyVars>>

SpecCsi == InitCsi /\ [][NextCsi]_vars

InCsi == {"Csi", "CsiParam"}

\* where a relative move by (dx, dy) from the cursor of g must end
MovedBy(g, dx, dy) ==
    <<Min(Max(g.cursor_x + dx, 0), g.cols - 1),
      Min(Max(g.cursor_y + dy, 0), g.rows - 1)>>

\* the direction of the final bytes A, B, C, D
Direction(byte) ==
    CASE byte = 65 -> <<0, -1>>
      [] byte = 66 -> <<0, 1>>
      [] byte = 67 -> <<1, 0>>
      [] byte = 68 -> <<-1, 0>>

FinalByte == last.data[Len(last.data)]

\* C2 (as claimed): ESC [ n X with a decimal n >= 1 and X one of A, B, C, D
\* moves the cursor by exactly n cells in X's direction, clamped into the
\* grid (the parameter in progress is committed before dispatch).
C2_MovesByParameter ==
    (/\ ByteIn({"CsiParam"}, {65, 66, 67, 68})
     /\ Before.parser.params = <<>>
     /\ Before.parser.intermediate = <<>>
     /\ Before.parser.current_param >= 1)
    => LET n == Before.parser.current_param
           d == Direction(FinalByte)
       IN  <<grid.cursor_x, grid.cursor_y>> = MovedBy(Before.grid, d[1] * n, d[2] * n)

\* params without its trailing explicit zeros
RECURSIVE WithoutTrailingZeros(_)
WithoutTrailingZeros(params) ==
    IF Len(params) > 0 /\ params[Len(params)] = 0
    THEN WithoutTrailingZeros(SubSeq(params, 1, Len(params) - 1))
    ELSE params

\* the parser that the same sequence leaves before H or f when its trailing
\* zero parameters (the one in progress included) are absent from it
ZerosAbsent(p) ==
    LET pp == WithoutTrailingZeros(Append(p.params, p.current_param))
    IN  IF pp = <<>>
        THEN [p EXCEPT !.params = <<>>, !.current_param = 0]
        ELSE [p EXCEPT !.params = SubSeq(pp, 1, Len(pp) - 1),
                       !.current_param = pp[Len(pp)]]

\* the parameter at position i (1-based) of a list as the commands take it:
\* the default when it is absent or zero
Effective(params, i, default) ==
    IF Len(params) >= i /\ params[i] # 0 THEN params[i] ELSE default

\* C6: a parameter that is absent or an explicit 0 counts as the default:
\* A, B, C, D move by the first committed parameter, by 1 when it is absent
\* or 0 (so ESC [ 0 A moves up by 1); H and f take row and column as 1 when
\* absent or 0; and the grid ends as it would with the zero parameters
\* absent from the sequence.
C6_ZeroParameterIsDefault ==
    /\ ByteIn(InCsi, {65, 66, 67, 68}) =>
         LET n == Effective(Before.parser.params, 1, 1)
             d == Direction(FinalByte)
         IN  <<grid.cursor_x, grid.cursor_y>>
                = MovedBy(Before.grid, d[1] * n, d[2] * n)
    /\ ByteIn(InCsi, {72, 102}) =>
         LET pp == Append(Before.parser.params, Before.parser.current_param)
         IN  /\ grid.cursor_y = Min(Effective(pp, 1, 1) - 1, grid.rows - 1)
             /\ grid.cursor_x = Min(Effective(pp, 2, 1) - 1, grid.cols - 1)
    /\ ByteIn(InCsi, {65, 66, 67, 68}) =>
         grid = csi([Before EXCEPT
                       !.parser.params = WithoutTrailingZeros(@)], FinalByte).grid
    /\ ByteIn(InCsi, {72, 102}) =>
         grid = csi([Before EXCEPT !.parser = ZerosAbsent(@)], FinalByte).grid

\* C6 witness: ESC [ 0 A from the bottom row moved the cursor up by one
C6_Witness ==
    /\ ByteIn({"CsiParam"}, {65})
    /\ Before.parser.params = <<>>
    /\ Before.parser.current_param = 0
    /\ Before.grid.cursor_y = CsiRows - 1
    /\ grid.cursor_y = CsiRows - 2

----------------------------------------------------------------------------
(* SpecParser: the parser's state machine, byte by byte, through every     *)
(* state, with parameters and intermediates pending.                       *)

ParserSteps == 5

ParserAlphabet ==
    { ESC, BEL, 10,                 \* ESC BEL LF
      91, 93,                       \* [ ]
      50, Semicolon, 63,            \* 2 ; ?
      65, 120 }                     \* A x

InitParser ==
    /\ Constructed({<<2, 1>>}, ParserSteps)
    /\ base = Current
    /\ fed = <<>>
    /\ PtyIdle

NextParser ==
    \E byte \in ParserAlphabet :
       Process(<<byte>>) /\ UNCHANGED <<resumeVars, ptyVars>>

SpecParser == InitParser /\ [][NextParser]_vars

Bytes == 0..255

\* byte completes or abandons the sequence pending in parser state pstate
EndsSequence(pstate, byte) ==
    \/ pstate = "Escape" /\ byte \notin {91, 93}
    \/ pstate \in InCsi /\ byte \notin Digits \cup {Semicolon} \cup Intermediates
    \/ pstate = "Osc" /\ byte \in {BEL, ESC}

\* C4: the parser is never stuck outside Ground: in every reachable state
\* some byte takes it to Ground, every one of the 256 bytes that completes
\* or abandons the pending sequence takes it to Ground, and so did the
\* byte that was last processed if it was one of those.
C4_NeverStuckOutsideGround ==
    /\ parser.state # "Ground" =>
         \E byte \in Bytes : process_byte(Current, byte).parser.state = "Ground"
    /\ \A byte \in Bytes :
         EndsSequence(parser.state, byte) =>
            process_byte(Current, byte).parser.state = "Ground"
    /\ (last.op = "process" /\ Len(last.data) >= 1
          /\ EndsSequence(Before.parser.state, FinalByte)) =>
            parser.state = "Ground"

\* C4 witness: a CSI sequence with a parameter and an intermediate pending
\* was abandoned by ESC, and the parser is back in Ground
C4_Witness ==
    /\ ByteIn({"CsiParam"}, {ESC})
    /\ Before.parser.intermediate # <<>>
    /\ Before.parser.current_param > 0
    /\ parser.state = "Ground"

\* nothing of a sequence is pending in p
Clean(p) == p.params = <<>> /\ p.current_param = 0 /\ p.intermediate = <<>>

\* C20: no parameter leakage: every byte that ends a CSI sequence,
\* recognized or not, leaves the parser in Ground with an empty parameter
\* list, in-progress parameter 0 and no intermediates; ESC [ clears them
\* again; so outside a CSI sequence nothing of an earlier sequence is
\* pending, and a sequence starts from the same parser whatever came before.
C20_NoParameterLeakage ==
    /\ parser.state \notin InCsi => Clean(parser)
    /\ (ByteIn(InCsi, Bytes) /\ EndsSequence(Before.parser.state, FinalByte)) =>
          (parser.state = "Ground" /\ Clean(parser))
    /\ parser.state \in InCsi =>
          \A byte \in Bytes :
             EndsSequence(parser.state, byte) =>
                LET p == process_byte(Current, byte).parser
                IN  p.state = "Ground" /\ Clean(p)
    /\ ByteIn({"Escape"}, {91}) =>
          (parser.state = "Csi" /\ Clean(parser)
             /\ [parser EXCEPT !.overflow = FALSE] = [ParserNew EXCEPT !.state = "Csi"])
    /\ parser.state \in InCsi =>
          LET p == escape([Current EXCEPT !.parser.state = "Escape"], 91).parser
          IN  p.state = "Csi" /\ Clean(p)

\* C20 witness: the unrecognized final byte x ended ESC [ 2 ; with a
\* parameter committed, and nothing of it is left
C20_Witness ==
    /\ ByteIn(InCsi, {120})
    /\ Before.parser.params = <<2>>
    /\ parser.state = "Ground"
    /\ Clean(parser)

----------------------------------------------------------------------------
(* SpecResume: the same bytes handed to AnsiParser.process in chunks cut   *)
(* at arbitrary places (empty chunks included).  base is the state before  *)
(* the first chunk, fed the bytes handed over since.                       *)

MaxChunk == 2
MaxFed == 5
ResumeSteps == 3

ResumeAlphabet == { ESC, 91, 51, 49, 109 }      \* ESC [ 3 1 m

ResumeChunks == UNION { [1..n -> ResumeAlphabet] : n \in 0..MaxChunk }

InitResume ==
    /\ Constructed({<<2, 1>>}, ResumeSteps)
    /\ base = Current
    /\ fed = <<>>
    /\ PtyIdle

Deliver(data) ==
    /\ Len(fed) + Len(data) <= MaxFed
    /\ Process(data)
    /\ fed' = fed \o data
    /\ UNCHANGED <<base, ptyVars>>

NextResume == \E data \in ResumeChunks : Deliver(data)

SpecResume == InitResume /\ [][NextResume]_vars

\* C1: resumability: however the bytes were cut into calls of process, the
\* parser and the grid (cells, cursor, pen, scrollback) are exactly what one
\* call of process with all the bytes leaves.
C1_Resumable == Current = process(base, fed)

\* C1 witness: ESC [ 3 1 m cut inside the parameter (ESC [ 3, then 1 m)
\* has set the pen's foreground to palette entry 1
C1_Witness ==
    /\ fed = <<ESC, 91, 51, 49, 109>>
    /\ last.data = <<49, 109>>
    /\ last.parser.state = "CsiParam"
    /\ grid.current_style.fg = ANSI_COLORS[2]
    /\ parser.state = "Ground"


----------------------------------------------------------------------------
(* SpecPen: printable bytes and SGR sequences on a fresh grid.  fed keeps  *)
(* the bytes handed to process since construction.                         *)

PenCols == 2
PenRows == 2
PenSteps == 5

\* ESC [ 3 1 m, ESC [ 0 m, ESC [ 7 m
Red == <<ESC, 91, 51, 49, 109>>
PenReset == <<ESC, 91, 48, 109>>
Inverse == <<ESC, 91, 55, 109>>

PenChunks == { <<65>>, <<66>>, Red, PenReset, Inverse }    \* A, B, and the pens

InitPen ==
    /\ Constructed({<<PenCols, 1>>, <<PenCols, PenRows>>}, PenSteps)
    /\ base = Current
    /\ fed = <<>>
    /\ PtyIdle

\* a chunk handed to process, its bytes appended to fed
Feed(data) ==
    /\ Process(data)
    /\ fed' = fed \o data
    /\ UNCHANGED <<base, ptyVars>>

NextPen == \E data \in PenChunks : Feed(data)

SpecPen == InitPen /\ [][NextPen]_vars

\* ESC[31m A ESC[0m B
PenExample == Red \o <<65>> \o PenReset \o <<66>>

\* the cell write_char stores for byte under pen style
Written(byte, style) ==
    [c |-> IF byte \in 32..126 THEN byte ELSE 63, style |-> style, dirty |-> TRUE]

\* C14: pen semantics: an SGR sequence changes the pen (current_style) and
\* nothing else of the grid, no cell; a written cell carries the pen as it
\* was when the cell was written, and writing leaves the pen as it is; so
\* ESC[31m A ESC[0m B on a blank grid leaves 'A' with foreground palette[1]
\* in cell (0,0) and 'B' with the default style in cell (1,0).
C14_PenSemantics ==
    /\ ByteIn(InCsi, {109}) =>
          grid = [Before.grid EXCEPT !.current_style = grid.current_style]
    /\ WroteChar =>
          /\ grid.cursor_x >= 1
          /\ grid.cells[grid.cursor_y + 1][grid.cursor_x]
                = Written(FinalByte, Before.grid.current_style)
          /\ grid.current_style = Before.grid.current_style
    /\ fed = PenExample =>
          /\ grid.cells[1][1] =
                Written(65, [CellStyleDefault EXCEPT !.fg = ANSI_COLORS[2]])
          /\ grid.cells[1][2] = Written(66, CellStyleDefault)

\* C14 witness: ESC[31m A ESC[0m B was processed: the pen is back to the
\* default while the 'A' written under the red pen is still red
C14_Witness ==
    /\ fed = PenExample
    /\ grid.current_style = CellStyleDefault
    /\ grid.cells[1][1].style.fg = ANSI_COLORS[2]
    /\ grid.cells[1][1].style.fg # FG_COLOR
    /\ grid.cells[1][2].c = 66

\* fed is k printable bytes and nothing else
OnlyPrintable(bytes) == \A i \in 1..Len(bytes) : bytes[i] \in 32..126

\* C15: write_char stores the character with the current pen at the cursor
\* and advances cursor_x by one, leaving the row as it is even when that
\* fills the last column; a write_char that finds cursor_x = cols first
\* moves to column 0 of the following row (scrolling the grid when the
\* cursor is on the last row) and writes there; k <= cols printable bytes
\* on a blank grid end up in row 0, columns 0..k-1, cursor at (k, 0).
C15_WriteAndDeferredWrap ==
    /\ WroteChar =>
          LET b == Before.grid
              cell == Written(FinalByte, b.current_style)
          IN  IF b.cursor_x < b.cols
              THEN grid = [b EXCEPT !.cells[b.cursor_y + 1][b.cursor_x + 1] = cell,
                                    !.cursor_x = b.cursor_x + 1,
                                    !.dirty = TRUE]
              ELSE IF b.cursor_y + 1 < b.rows
              THEN grid = [b EXCEPT !.cells[b.cursor_y + 2][1] = cell,
                                    !.cursor_x = 1,
                                    !.cursor_y = b.cursor_y + 1,
                                    !.dirty = TRUE]
              ELSE /\ grid.cells =
                         Append(Tail(b.cells), [BlankRow(b.cols) EXCEPT ![1] = cell])
                   /\ grid.cursor_x = 1
                   /\ grid.cursor_y = b.cursor_y
                   /\ Len(grid.scrollback) >= 1
                   /\ grid.scrollback[Len(grid.scrollback)] = b.cells[1]
    /\ (OnlyPrintable(fed) /\ Len(fed) <= grid.cols) =>
          /\ grid.cells =
                [y \in 1..grid.rows |->
                   [x \in 1..grid.cols |->
                      IF y = 1 /\ x <= Len(fed)
                      THEN Written(fed[x], CellStyleDefault)
                      ELSE CellDefault]]
          /\ grid.cursor_x = Len(fed)
          /\ grid.cursor_y = 0

\* C15 witness: a write on the last row found the cursor past the last
\* column: the grid scrolled and the character is in column 0
C15_Witness ==
    /\ WroteChar
    /\ Before.grid.cursor_x = Before.grid.cols
    /\ Before.grid.cursor_y = Before.grid.rows - 1
    /\ grid.rows = PenRows
    /\ grid.cursor_x = 1
    /\ grid.cells[grid.rows][1].c = FinalByte
    /\ Len(grid.scrollback) = 1

----------------------------------------------------------------------------
(* SpecErase: erase in display (CSI J) with each parameter, on a grid with *)
(* written cells before, at and after the cursor.                          *)

EraseCols == 2
EraseRows == 2
EraseSteps == 5

\* ESC [ A: the cursor up by one
Up == <<ESC, 91, 65>>
\* ESC [ J and ESC [ n J for n = 0..3
EraseJ == { <<ESC, 91, 74>> } \cup { <<ESC, 91, 48 + n, 74>> : n \in 0..3 }
\* ESC [ 2 J ESC [ H in one chunk
ClearHome == <<ESC, 91, 50, 74, ESC, 91, 72>>

EraseChunks == { <<120>>, Up, ClearHome } \cup EraseJ

InitErase ==
    /\ Constructed({<<EraseCols, EraseRows>>}, EraseSteps)
    /\ base = Current
    /\ fed = <<>>
    /\ PtyIdle

NextErase ==
    \E data \in EraseChunks :
       Process(data) /\ UNCHANGED <<resumeVars, ptyVars>>

SpecErase == InitErase /\ [][NextErase]_vars

\* every visible cell of g is the default cell
AllDefault(g) ==
    \A y \in 1..Len(g.cells) : \A x \in 1..Len(g.cells[y]) : g.cells[y][x] = CellDefault

\* the cell at (x, y) is at or after the cursor of g in its row, or in a row below
FromCursor(g, x, y) ==
    \/ y = g.cursor_y /\ x >= g.cursor_x
    \/ y > g.cursor_y

\* C16: erase in display: CSI J with parameter 0 or none makes default
\* exactly the cells from the cursor to the end of its row and all rows
\* below, and leaves the earlier cells and the cursor as they are;
\* parameter 1 changes nothing; parameter 2 or 3 makes every visible cell
\* default and homes the cursor; and ESC[2J ESC[H leaves all visible cells
\* default and the cursor at (0,0).
C16_EraseInDisplay ==
    /\ ByteIn(InCsi, {74}) =>
          LET b == Before.grid
              n == Effective(Append(Before.parser.params,
                                    Before.parser.current_param), 1, 0)
          IN  CASE n = 0 ->
                     grid = [b EXCEPT
                               !.cells = [y \in 1..b.rows |->
                                            [x \in 1..b.cols |->
                                               IF FromCursor(b, x - 1, y - 1)
                                               THEN CellDefault
                                               ELSE b.cells[y][x]]],
                               !.dirty = TRUE]
                [] n = 1 -> grid = b
                [] n \in {2, 3} ->
                     grid = [b EXCEPT
                               !.cells = [y \in 1..b.rows |-> BlankRow(b.cols)],
                               !.cursor_x = 0, !.cursor_y = 0,
                               !.dirty = TRUE]
                [] OTHER -> TRUE
    /\ (last.op = "process" /\ last.data = ClearHome /\ last.parser.state = "Ground") =>
          /\ AllDefault(grid)
          /\ grid.cursor_x = 0 /\ grid.cursor_y = 0

\* C16 witness: ESC [ J with the cursor at (1,0) on a grid with (0,0), (1,0)
\* and (0,1) written: (0,0) is kept, the other two are default again
C16_Witness ==
    /\ ByteIn(InCsi, {74})
    /\ Before.parser.params = <<>> /\ Before.parser.current_param = 0
    /\ Before.grid.cursor_x = 1 /\ Before.grid.cursor_y = 0
    /\ Before.grid.cells[1][2].c = 120
    /\ Before.grid.cells[2][1].c = 120
    /\ grid.cells[1][1].c = 120
    /\ grid.cells[1][2] = CellDefault
    /\ grid.cells[2][1] = CellDefault

----------------------------------------------------------------------------
(* SpecCursor: Grid::move_cursor and Grid::move_cursor_relative called     *)
(* with arguments inside and beyond the grid, from every cursor position   *)
(* (the pending-wrap position cursor_x = cols included).                   *)

CurCols == 2
CurRows == 2
CurSteps == 2
\* how far beyond the last column / row the arguments go
Beyond == 5

CursorSizes == {1, CurCols} \X {1, CurRows}
Targets == (0..(CurCols + Beyond)) \X (0..(CurRows + Beyond))
Offsets == ((0 - CurCols - 1)..(CurCols + 1)) \X ((0 - CurRows - 1)..(CurRows + 1))

InitCursor ==
    /\ Constructed(CursorSizes, CurSteps)
    /\ base = Current
    /\ fed = <<>>
    /\ PtyIdle

\* grid.move_cursor(x, y)
MoveCursor(x, y) ==
    /\ steps > 0
    /\ ~grid.panic
    /\ grid' = move_cursor(grid, x, y)
    /\ parser' = parser
    /\ last' = Call("move_cursor", <<x, y>>)
    /\ steps' = steps - 1

\* grid.move_cursor_relative(dx, dy)
MoveCursorRelative(dx, dy) ==
    /\ steps > 0
    /\ ~grid.panic
    /\ grid' = move_cursor_relative(grid, dx, dy)
    /\ parser' = parser
    /\ last' = Call("move_cursor_relative", <<dx, dy>>)
    /\ steps' = steps - 1

NextCursor ==
    \/ \E t \in Targets :
         MoveCursor(t[1], t[2]) /\ UNCHANGED <<resumeVars, ptyVars>>
    \/ \E d \in Offsets :
         MoveCursorRelative(d[1], d[2]) /\ UNCHANGED <<resumeVars, ptyVars>>
    \/ Process(<<120>>) /\ UNCHANGED <<resumeVars, ptyVars>>

SpecCursor == InitCursor /\ [][NextCursor]_vars

\* C17: cursor clamping: move_cursor(x, y) sets the cursor to
\* (min(x, cols-1), min(y, rows-1)) for all x, y, so that
\* move_cursor(cols+5, rows+5) gives (cols-1, rows-1);
\* move_cursor_relative(dx, dy) sets it to the same clamp of
\* (max(cursor_x+dx, 0), max(cursor_y+dy, 0)); neither changes anything else.
C17_CursorClamping ==
    /\ last.op = "move_cursor" =>
          LET g == last.grid
          IN  /\ grid = [g EXCEPT !.cursor_x = Min(last.data[1], g.cols - 1),
                                  !.cursor_y = Min(last.data[2], g.rows - 1)]
              /\ last.data = <<g.cols + 5, g.rows + 5>> =>
                    (grid.cursor_x = g.cols - 1 /\ grid.cursor_y = g.rows - 1)
    /\ last.op = "move_cursor_relative" =>
          LET g == last.grid
          IN  grid = [g EXCEPT
                        !.cursor_x = Min(Max(g.cursor_x + last.data[1], 0), g.cols - 1),
                        !.cursor_y = Min(Max(g.cursor_y + last.data[2], 0), g.rows - 1)]

\* C17 witness: move_cursor(cols+5, rows+5) put the cursor in the
\* bottom-right cell of the largest grid
C17_Witness ==
    /\ last.op = "move_cursor"
    /\ last.data = <<last.grid.cols + 5, last.grid.rows + 5>>
    /\ grid.cols = CurCols /\ grid.rows = CurRows
    /\ grid.cursor_x = CurCols - 1 /\ grid.cursor_y = CurRows - 1
    /\ last.grid.cursor_x = 0

----------------------------------------------------------------------------
(* SpecResize: writes and resizes.  base keeps the call before the last    *)
(* one (what last held then), so that a shrink followed by a grow is seen. *)

RszCols == 2
RszRows == 2
RszSteps == 4

ResizeSizes == {1, RszCols} \X {1, RszRows}

InitResize ==
    /\ Constructed(ResizeSizes, RszSteps)
    /\ base = last
    /\ fed = <<>>
    /\ PtyIdle

NextResize ==
    \/ Process(<<120>>) /\ base' = last /\ UNCHANGED <<fed, ptyVars>>
    \/ \E d \in ResizeSizes :
         WindowResized(d[1], d[2]) /\ base' = last /\ UNCHANGED <<fed, ptyVars>>

SpecResize == InitResize /\ [][NextResize]_vars

\* the last two calls were resizes: to a size no larger in either direction,
\* then back to the size before
ShrunkAndGrownBack ==
    /\ last.op = "resize" /\ base.op = "resize"
    /\ last.grid.cols <= base.grid.cols /\ last.grid.rows <= base.grid.rows
    /\ grid.cols = base.grid.cols /\ grid.rows = base.grid.rows

\* C18: resize truncation: resize(c2, r2) keeps the cell at (x, y) for every
\* x < min(cols, c2) and y < min(rows, r2), makes every other cell of the
\* new matrix default, clamps the cursor into the new bounds and leaves the
\* scrollback alone; so after a shrink and a grow back to the original size
\* the cells outside the shrunk bounds are default, whatever they held.
C18_ResizeTruncation ==
    /\ last.op = "resize" =>
          LET g == last.grid
              c2 == last.data[1]
              r2 == last.data[2]
          IN  /\ grid.cols = c2 /\ grid.rows = r2
              /\ grid.cells =
                    [y \in 1..r2 |->
                       [x \in 1..c2 |->
                          IF x <= Min(g.cols, c2) /\ y <= Min(g.rows, r2)
                          THEN g.cells[y][x] ELSE CellDefault]]
              /\ grid.cursor_x = Min(g.cursor_x, c2 - 1)
              /\ grid.cursor_y = Min(g.cursor_y, r2 - 1)
              /\ grid.cursor_x < c2 /\ grid.cursor_y < r2
              /\ grid.scrollback = g.scrollback
    /\ ShrunkAndGrownBack =>
          \A y \in 1..grid.rows : \A x \in 1..grid.cols :
             grid.cells[y][x] =
                IF x <= last.grid.cols /\ y <= last.grid.rows
                THEN base.grid.cells[y][x] ELSE CellDefault

\* C18 witness: a grid with column 1 written was shrunk to one column and
\* grown back: the cell in column 1 is default, the one in column 0 is kept
C18_Witness ==
    /\ ShrunkAndGrownBack
    /\ grid.cols = RszCols
    /\ last.grid.cols = 1
    /\ base.grid.cells[1][2].c = 120
    /\ grid.cells[1][1].c = 120
    /\ grid.cells[1][2] = CellDefault

----------------------------------------------------------------------------
(* SpecDigits: runs of digits inside a CSI sequence, long enough for the   *)
(* 16-bit parameter in progress to leave its range.                        *)

DigitSteps == 6

DigitChunks == { Introducer, <<48>>, <<54>>, <<57>>, <<Semicolon>> }   \* ESC[ 0 6 9 ;

InitDigits ==
    /\ Constructed({<<2, 1>>}, DigitSteps)
    /\ base = Current
    /\ fed = <<>>
    /\ PtyIdle

NextDigits ==
    \E data \in DigitChunks :
       Process(data) /\ UNCHANGED <<resumeVars, ptyVars>>

SpecDigits == InitDigits /\ [][NextDigits]_vars

\* C19 (as claimed): for any run of digits inside a CSI sequence the
\* in-progress parameter is the base-10 value of the digits seen so far,
\* and current_param * 10 + digit never leaves the 16-bit range (no
\* overflow failure, no wrap-around).
C19_AccumulationInRange ==
    /\ ~parser.overflow
    /\ ByteIn(InCsi, Digits) =>
          parser.current_param = Before.parser.current_param * 10 + (FinalByte - 48)

----------------------------------------------------------------------------
(* SpecPty: the reader thread (pty.rs read_loop) and the main loop         *)
(* (main.rs, the event-loop closure) around the bounded channel.           *)

\* Capacity of the channel.  The program creates bounded(1024); the model
\* keeps the same blocking send with a capacity small enough to fill.
CHANNEL_CAPACITY == 1
\* Chunks the reader reads before the stream ends.
MaxReads == 3

\* what the child writes: a printable byte, a line feed
PtyData == { <<120>>, <<10>> }

\* the physical sizes the window is resized to: a zero width (ignored by the
\* renderer), one narrower than the padding, and the size at start
WindowSizes ==
    { <<0, DEFAULT_HEIGHT>>, <<40, DEFAULT_HEIGHT>>, <<DEFAULT_WIDTH, DEFAULT_HEIGHT>> }

\* a channel without a bound: send always goes through
CanSend_unbounded(q) == TRUE

\* a channel with no room at all: send never goes through
CanSend_no_room(q) == FALSE

\* crossbeam bounded channel: send goes through only while there is room
CanSend(q) == Len(q) < CHANNEL_CAPACITY

\* a drain loop that leaves for the event whatever the channel holds
TryRecvEmpty_anytime(q) == TRUE

\* pty.rx.try_recv() returns Err(Empty): nothing in the channel
TryRecvEmpty(q) == q = <<>>

InitPty ==
    /\ Constructed({grid_dimensions(RendererNew)}, 0)
    /\ base = Current
    /\ fed = <<>>
    /\ PtyIdle

\* read_loop: Ok(n) => the chunk is to be sent as Output
ReaderRead(data) ==
    /\ reader.pc = "read"
    /\ Len(readlog) < MaxReads
    /\ readlog' = Append(readlog, data)
    /\ reader' = [pc |-> "send", msg |-> Output(data), ended |-> "no"]
    /\ UNCHANGED <<coreVars, resumeVars, queue, main, processed, renderer, turn, obs>>

\* the ways a read ends the stream: Ok(0), Err(_)
ReadEnds == {"eof", "error"}

\* read_loop: Exit(0) for Ok(0), Exit(1) for Err(_)
ExitCode(ended) == IF ended = "eof" THEN 0 ELSE 1

\* read_loop: Ok(0) => Exit(0) and break; Err(_) => Exit(1) and break
ReaderEnd(ended) ==
    /\ reader.pc = "read"
    /\ reader' = [pc |-> "send", msg |-> Exit(ExitCode(ended)), ended |-> ended]
    /\ UNCHANGED <<coreVars, resumeVars, queue, main, readlog, processed,
                   renderer, turn, obs>>

\* a read loop without its breaks: back to read after an Exit too
AfterSend_no_break == "read"

\* read_loop: break after an Exit, the next read after an Output
AfterSend == IF reader.msg.kind = "Exit" THEN "done" ELSE "read"

\* the record of a send: the message and whether the channel took it
Sent(ok) == [obs EXCEPT !.sent = Append(@, [msg |-> reader.msg, ok |-> ok])]

\* tx.send(..) with the receiver alive: blocks while the channel is full
ReaderSend ==
    /\ reader.pc = "send"
    /\ main # "exited"
    /\ CanSend(queue)
    /\ queue' = Append(queue, reader.msg)
    /\ reader' = [reader EXCEPT !.pc = AfterSend]
    /\ obs' = Sent(TRUE)
    /\ UNCHANGED <<coreVars, resumeVars, main, readlog, processed, renderer, turn>>

\* let _ = tx.send(..) once the main loop is gone: Err, ignored
ReaderSendDisconnected ==
    /\ reader.pc = "send"
    /\ main = "exited"
    /\ reader' = [reader EXCEPT !.pc = AfterSend]
    /\ obs' = Sent(FALSE)
    /\ UNCHANGED <<coreVars, resumeVars, queue, main, readlog, processed,
                   renderer, turn>>

\* the record of a message the main loop took from the channel
Received == [obs EXCEPT !.received = Append(@, Head(queue))]

\* drain loop: Ok(PtyEvent::Output(data)) => parser.process(&data, &mut grid)
MainRecvOutput ==
    /\ main = "drain"
    /\ ~grid.panic
    /\ queue # <<>>
    /\ Head(queue).kind = "Output"
    /\ queue' = Tail(queue)
    /\ LET st == process(Current, Head(queue).data)
       IN  /\ parser' = st.parser
           /\ grid' = st.grid
    /\ last' = Call("process", Head(queue).data)
    /\ processed' = Append(processed, Head(queue).data)
    /\ turn' = [turn EXCEPT !.pending = saturating_sub(@, 1)]
    /\ obs' = Received
    /\ UNCHANGED <<steps, resumeVars, reader, main, readlog, renderer>>

\* drain loop: Ok(PtyEvent::Exit(_)) => elwt.exit(); return
MainRecvExit ==
    /\ main = "drain"
    /\ queue # <<>>
    /\ Head(queue).kind = "Exit"
    /\ queue' = Tail(queue)
    /\ main' = "exited"
    /\ obs' = Received
    /\ UNCHANGED <<coreVars, resumeVars, reader, readlog, processed, renderer, turn>>

\* drain loop: Err(Empty) => break (on to the event);
\* Err(Disconnected) => elwt.exit(); return
MainRecvNothing ==
    /\ main = "drain"
    /\ TryRecvEmpty(queue)
    /\ main' = IF reader.pc = "done" /\ queue = <<>> THEN "exited" ELSE "event"
    /\ turn' = [turn EXCEPT !.empty = (queue = <<>>)]
    /\ UNCHANGED <<coreVars, resumeVars, queue, reader, readlog, processed,
                   renderer, obs>>

\* WindowEvent::CloseRequested => elwt.exit()
EventCloseRequested ==
    /\ main = "event"
    /\ main' = "exited"
    /\ UNCHANGED <<coreVars, resumeVars, queue, reader, readlog, processed,
                   renderer, turn, obs>>

\* resized that asks the child first and touches the grid only on success
on_resized_request_first(r, g, width, height, ok) ==
    LET r1 == renderer_resize(r, width, height)
        d == grid_dimensions(r1)
    IN  [renderer |-> r1,
         request |-> [cols |-> d[1], rows |-> d[2], ok |-> ok,
                      grid |-> <<g.cols, g.rows>>],
         grid |-> IF ok THEN resize(g, d[1], d[2]) ELSE g]

\* WindowEvent::Resized => renderer.resize(physical_size);
\* grid.resize(renderer.grid_dimensions()); let _ = pty.resize(cols, rows).
\* ok is the result of pty.resize; request.grid is the size the grid had
\* when the request was issued.
on_resized(r, g, width, height, ok) ==
    LET r1 == renderer_resize(r, width, height)
        d == grid_dimensions(r1)
        g1 == resize(g, d[1], d[2])
    IN  [renderer |-> r1,
         request |-> [cols |-> d[1], rows |-> d[2], ok |-> ok,
                      grid |-> <<g1.cols, g1.rows>>],
         grid |-> g1]

EventResized(width, height) ==
    /\ main = "event"
    /\ ~grid.panic
    /\ \E ok \in BOOLEAN :
         LET h == on_resized(renderer, grid, width, height, ok)
         IN  /\ renderer' = h.renderer
             /\ grid' = h.grid
             /\ obs' = [obs EXCEPT !.request = h.request]
             /\ last' = Call("resize", <<h.request.cols, h.request.rows>>)
    /\ main' = "drain"
    /\ turn' = TurnStart(queue)
    /\ UNCHANGED <<parser, steps, resumeVars, queue, reader, readlog, processed>>

\* WindowEvent::RedrawRequested => renderer.render(&grid): the grid is read,
\* nothing is written
EventRedrawRequested ==
    /\ main = "event"
    /\ main' = "drain"
    /\ turn' = TurnStart(queue)
    /\ UNCHANGED <<coreVars, resumeVars, queue, reader, readlog, processed,
                   renderer, obs>>

\* KeyboardInput, AboutToWait and the rest: nothing of the parser, the grid
\* or the channel changes
EventOther ==
    /\ main = "event"
    /\ main' = "drain"
    /\ turn' = TurnStart(queue)
    /\ UNCHANGED <<coreVars, resumeVars, queue, reader, readlog, processed,
                   renderer, obs>>

NextPty ==
    \/ \E data \in PtyData : ReaderRead(data)
    \/ \E ended \in ReadEnds : ReaderEnd(ended)
    \/ ReaderSend
    \/ ReaderSendDisconnected
    \/ MainRecvOutput
    \/ MainRecvExit
    \/ MainRecvNothing
    \/ EventCloseRequested
    \/ \E d \in WindowSizes : EventResized(d[1], d[2])
    \/ EventRedrawRequested
    \/ EventOther

SpecPty == InitPty /\ [][NextPty]_vars

\* the chunk the reader holds while it is (blocked) in send
InSend == IF reader.pc = "send" THEN OutputsOf(<<reader.msg>>) ELSE <<>>

IsPrefix(a, b) == Len(a) <= Len(b) /\ SubSeq(b, 1, Len(a)) = a

C11_DrainBeforeEvents ==
    /\ main = "event" => (turn.empty /\ turn.pending = 0)
    /\ main \in {"drain", "event", "exited"}

\* C11 witness: the event handlers are reached in a turn that began with a
\* full channel, all of it processed
C11_Witness ==
    /\ main = "event"
    /\ turn.start = CHANNEL_CAPACITY
    /\ turn.pending = 0
    /\ turn.empty
    /\ Len(processed) >= CHANNEL_CAPACITY

\* the messages of a send log that the channel took
RECURSIVE Delivered(_)
Delivered(log) ==
    IF log = <<>> THEN <<>>
    ELSE IF Head(log).ok
    THEN <<Head(log).msg>> \o Delivered(Tail(log))
    ELSE Delivered(Tail(log))

C13_CooperativeResize ==
    /\ <<grid.cols, grid.rows>> = grid_dimensions(renderer)
    /\ last.op = "resize" =>
          /\ <<obs.request.cols, obs.request.rows>> = grid_dimensions(renderer)
          /\ obs.request.grid = grid_dimensions(renderer)
          /\ grid = resize(last.grid, obs.request.cols, obs.request.rows)

\* C13 witness: a resize whose request to the child failed changed the
\* grid's width
C13_Witness ==
    /\ last.op = "resize"
    /\ ~obs.request.ok
    /\ grid.cols # last.grid.cols

----------------------------------------------------------------------------
(* SpecPosition: the absolute positioning sequences ESC [ r ; c H and      *)
(* ESC [ r ; c f, each in one chunk, with row and column absent, zero,     *)
(* inside the grid and beyond it, on a grid wider than it is tall.         *)

PosCols == 3
PosRows == 2
PosSteps == 2

\* the text of a parameter: absent, 0, 1, 2, 3, 9, 12
ParamTexts == { <<>>, <<48>>, <<49>>, <<50>>, <<51>>, <<57>>, <<49, 50>> }

\* b'H' | b'f'
PositionFinals == {72, 102}

\* ESC [ r ; c final
Position(r, c, final) == Introducer \o r \o <<Semicolon>> \o c \o <<final>>
\* ESC [ r final: the column and its separator left out
PositionRow(r, final) == Introducer \o r \o <<final>>

PositionChunks ==
    { Position(r, c, final) : r \in ParamTexts, c \in ParamTexts, final \in PositionFinals }
    \cup { PositionRow(r, final) : r \in ParamTexts, final \in PositionFinals }
    \cup { <<120>> }

InitPosition ==
    /\ Constructed({<<PosCols, PosRows>>}, PosSteps)
    /\ base = Current
    /\ fed = <<>>
    /\ PtyIdle

NextPosition ==
    \E data \in PositionChunks :
       Process(data) /\ UNCHANGED <<resumeVars, ptyVars>>

SpecPosition == InitPosition /\ [][NextPosition]_vars

\* the number a run of decimal digits writes (0 for the empty run)
RECURSIVE DecimalValue(_)
DecimalValue(text) ==
    IF text = <<>> THEN 0
    ELSE DecimalValue(SubSeq(text, 1, Len(text) - 1)) * 10 + (text[Len(text)] - 48)

\* a parameter text as H and f take it: 1 when absent or 0
OneWhenAbsent(text) == IF DecimalValue(text) = 0 THEN 1 ELSE DecimalValue(text)

\* g with its cursor at the 1-indexed (row, column), clamped into g
Positioned(g, row, column) ==
    [g EXCEPT !.cursor_x = Min(column - 1, g.cols - 1),
              !.cursor_y = Min(row - 1, g.rows - 1)]

\* C21: absolute positioning: ESC [ r ; c H (or f) sets the cursor to
\* column min(c-1, cols-1) and row min(r-1, rows-1), the first parameter
\* being the row and the second the column, each taken as 1 when absent or
\* 0, and changes nothing else of the grid; ESC [ H homes the cursor to
\* (0,0).
C21_AbsolutePositioning ==
    /\ \A final \in PositionFinals : \A r \in ParamTexts :
          /\ \A c \in ParamTexts :
                (last.op = "process" /\ last.data = Position(r, c, final)
                   /\ last.parser.state = "Ground") =>
                   /\ grid = Positioned(last.grid, OneWhenAbsent(r), OneWhenAbsent(c))
                   /\ parser.state = "Ground"
          /\ (last.op = "process" /\ last.data = PositionRow(r, final)
                /\ last.parser.state = "Ground") =>
                /\ grid = Positioned(last.grid, OneWhenAbsent(r), 1)
                /\ parser.state = "Ground"
    /\ (last.op = "process" /\ last.data = PositionRow(<<>>, 72)) =>
          (grid.cursor_x = 0 /\ grid.cursor_y = 0)

\* C21 witness: ESC [ 2 ; 3 H from the home position put the cursor in
\* row 1, column 2 (not row 2, column 1, which the grid does not have)
C21_Witness ==
    /\ last.op = "process"
    /\ last.data = Position(<<50>>, <<51>>, 72)
    /\ last.grid.cursor_x = 0 /\ last.grid.cursor_y = 0
    /\ grid.cursor_x = 2 /\ grid.cursor_y = 1
    /\ grid.cols = PosCols /\ grid.rows = PosRows

----------------------------------------------------------------------------
(* SpecIgnored: CSI sequences that end in a byte the parser has no command *)
(* for, with parameters and intermediates, on a grid that has written      *)
(* cells, a coloured pen and a scrollback.  base is the parser and grid as *)
(* the last chunk that met the parser in Ground found them: the state      *)
(* before the sequence that is pending or has just ended.                  *)

IgnoredSteps == 4

\* ESC [ 3 1 m  x  LF  x: a red pen, a row in the scrollback, a cell written
Setup == Red \o <<120, 10, 120>>
\* ESC [ ?
PrivateIntroducer == <<ESC, 91, 63>>

\* the final bytes with a command: A B C D H f J K m
CommandFinals == {65, 66, 67, 68, 72, 102, 74, 75, 109}

\* r h l c n, and x and ESC for the bytes without an arm of their own
IgnoredFinals == {114, 104, 108, 99, 110, 120, ESC}

IgnoredChunks ==
    { Setup, Introducer, PrivateIntroducer, <<50>>, <<Semicolon>> }
    \cup { <<byte>> : byte \in IgnoredFinals }

InitIgnored ==
    /\ Constructed({<<2, 1>>}, IgnoredSteps)
    /\ base = Current
    /\ fed = <<>>
    /\ PtyIdle

\* a chunk handed to process; base follows the parser's returns to Ground
FeedIgnored(data) ==
    /\ Process(data)
    /\ base' = IF parser.state = "Ground" THEN Current ELSE base
    /\ UNCHANGED <<fed, ptyVars>>

NextIgnored == \E data \in IgnoredChunks : FeedIgnored(data)

SpecIgnored == InitIgnored /\ [][NextIgnored]_vars

\* C22: ignored CSI commands leave the grid untouched: inside a CSI
\* sequence every byte other than the finals A, B, C, D, H, f, J, K, m -
\* r, h, l, c, n and any other final, and the parameter and intermediate
\* bytes before it - leaves cells, cursor, pen and scrollback exactly as
\* they were, so that the whole sequence from its ESC on leaves the grid
\* as it found it.
C22_IgnoredCsiLeavesGrid ==
    /\ ByteIn(InCsi, Bytes \ CommandFinals) => grid = Before.grid
    /\ parser.state \in InCsi =>
          \A byte \in Bytes \ CommandFinals :
             process_byte(Current, byte).grid = grid
    /\ parser.state \in InCsi => grid = base.grid
    /\ (ByteIn(InCsi, Bytes \ CommandFinals)
          /\ EndsSequence(Before.parser.state, FinalByte)) =>
          (parser.state = "Ground" /\ grid = base.grid)

\* C22 witness: ESC [ ? 2 h ended on a grid with a written cell, a red
\* pen and a row in the scrollback, all of them as before the sequence
C22_Witness ==
    /\ ByteIn(InCsi, {104})
    /\ Before.parser.intermediate = <<63>>
    /\ Before.parser.current_param = 2
    /\ grid = base.grid
    /\ grid.cells[1][1].c = 120
    /\ grid.current_style.fg = ANSI_COLORS[2]
    /\ Len(grid.scrollback) = 1
    /\ grid.cursor_x = 1

----------------------------------------------------------------------------
(* SpecNewline: line feeds (LF, VT, FF, ESC D) between written characters, *)
(* on a grid of one row and on a taller one, through the last row and into *)
(* the scrollback.                                                         *)

NlCols == 2
NlRows == 3
NlSteps == 5

\* ESC D
Index == <<ESC, 68>>

NewlineChunks == { <<120>>, <<121>>, <<10>>, <<11>>, <<12>>, Index }   \* x y LF VT FF

InitNewline ==
    /\ Constructed({<<NlCols, 1>>, <<NlCols, NlRows>>}, NlSteps)
    /\ base = Current
    /\ fed = <<>>
    /\ PtyIdle

NextNewline ==
    \E data \in NewlineChunks :
       Process(data) /\ UNCHANGED <<resumeVars, ptyVars>>

SpecNewline == InitNewline /\ [][NextNewline]_vars

\* the last byte ran Grid::newline on its own: LF, VT, FF in Ground, the D of ESC D
NewlineRan == ByteIn({"Ground"}, {10, 11, 12}) \/ ByteIn({"Escape"}, {68})

\* C23: newline() (bytes 0x0a, 0x0b, 0x0c and ESC D) always sets cursor_x
\* to 0; when cursor_y < rows-1 it increases cursor_y by 1 and changes no
\* cell (nor anything else); when cursor_y = rows-1 it scrolls the grid up
\* by one row and leaves cursor_y at rows-1.
C23_Newline ==
    NewlineRan =>
       LET b == Before.grid
       IN  /\ grid.cursor_x = 0
           /\ b.cursor_y <= b.rows - 1
           /\ b.cursor_y < b.rows - 1 =>
                 grid = [b EXCEPT !.cursor_x = 0, !.cursor_y = b.cursor_y + 1]
           /\ b.cursor_y = b.rows - 1 =>
                 /\ grid.cursor_y = b.rows - 1
                 /\ grid.cells = Append(Tail(b.cells), BlankRow(b.cols))
                 /\ Len(grid.scrollback) >= 1
                 /\ grid.scrollback[Len(grid.scrollback)] = b.cells[1]
                 /\ grid.current_style = b.current_style
                 /\ grid.cols = b.cols /\ grid.rows = b.rows

\* C23 witness: ESC D on the last row of the tall grid, the cursor past a
\* written cell: the grid scrolled, the cursor is at column 0 of the last row
C23_Witness ==
    /\ ByteIn({"Escape"}, {68})
    /\ Before.grid.rows = NlRows
    /\ Before.grid.cursor_y = NlRows - 1
    /\ Before.grid.cursor_x = 1
    /\ Before.grid.cells[NlRows][1].c = 120
    /\ grid.cursor_x = 0 /\ grid.cursor_y = NlRows - 1
    /\ grid.cells[NlRows - 1][1].c = 120
    /\ grid.cells[NlRows] = BlankRow(NlCols)

\* C24: a scroll moves content up by exactly one row: the old row 0 becomes
\* the newest scrollback entry with its cells unchanged, every old visible
\* row y (1 <= y < rows) becomes row y-1 unchanged, and the new bottom row
\* consists of cols default cells.  (The byte that scrolled is a line feed
\* on the last row, or a character written there with the wrap pending; the
\* character then goes into the new bottom row.)
C24_ScrollByOneRow ==
    Scrolled =>
       LET b == Before.grid
           wrote == WroteChar
           bottom == IF wrote
                     THEN [BlankRow(b.cols) EXCEPT
                             ![1] = Written(FinalByte, b.current_style)]
                     ELSE BlankRow(b.cols)
       IN  /\ Len(grid.scrollback) >= 1
           /\ grid.scrollback[Len(grid.scrollback)] = b.cells[1]
           /\ Len(grid.cells) = b.rows
           /\ \A y \in 1..(b.rows - 1) : grid.cells[y] = b.cells[y + 1]
           /\ grid.cells[b.rows] = bottom
           /\ Len(bottom) = grid.cols
           /\ ~wrote => \A x \in 1..grid.cols : grid.cells[b.rows][x] = CellDefault

\* C24 witness: a line feed scrolled the tall grid with x in its row 0 and
\* y in its row 1: x is the newest scrollback row, y is in row 0
C24_Witness ==
    /\ Scrolled
    /\ ByteIn({"Ground"}, {10})
    /\ grid.rows = NlRows
    /\ Before.grid.cells[1][1].c = 120
    /\ Before.grid.cells[2][1].c = 121
    /\ grid.scrollback[Len(grid.scrollback)][1].c = 120
    /\ grid.cells[1][1].c = 121
    /\ grid.cells[NlRows] = BlankRow(NlCols)

----------------------------------------------------------------------------
(* SpecBackspace: backspaces after written characters, at column 0 of the  *)
(* first row and of a later row, under the default pen and a red one.      *)

BsCols == 2
BsRows == 2
BsSteps == 5

BackspaceChunks == { <<120>>, <<8>>, <<10>>, Red }      \* x BS LF ESC[31m

InitBackspace ==
    /\ Constructed({<<BsCols, BsRows>>}, BsSteps)
    /\ base = Current
    /\ fed = <<>>
    /\ PtyIdle

NextBackspace ==
    \E data \in BackspaceChunks :
       Process(data) /\ UNCHANGED <<resumeVars, ptyVars>>

SpecBackspace == InitBackspace /\ [][NextBackspace]_vars

\* C25: backspace(): when cursor_x > 0 it decrements cursor_x by 1 and
\* replaces the cell at the new cursor position with a default cell
\* (default character and default style, not the pen), changing no other
\* cell; when cursor_x = 0 it changes nothing and never moves to the
\* previous row.
C25_Backspace ==
    ByteIn({"Ground"}, {8}) =>
       LET b == Before.grid
       IN  IF b.cursor_x > 0
           THEN grid = [b EXCEPT !.cursor_x = b.cursor_x - 1,
                                 !.cells[b.cursor_y + 1][b.cursor_x] = CellDefault,
                                 !.dirty = TRUE]
           ELSE grid = b /\ grid.cursor_y = b.cursor_y

\* C25 witness: a backspace under the red pen erased the red x before the
\* cursor to a default cell and left the x to its left red
C25_Witness ==
    /\ ByteIn({"Ground"}, {8})
    /\ Before.grid.cursor_x = BsCols
    /\ Before.grid.current_style.fg = ANSI_COLORS[2]
    /\ Before.grid.cells[1][BsCols].style.fg = ANSI_COLORS[2]
    /\ grid.cursor_x = BsCols - 1
    /\ grid.cells[1][BsCols] = CellDefault
    /\ grid.cells[1][1].c = 120
    /\ grid.cells[1][1].style.fg = ANSI_COLORS[2]

----------------------------------------------------------------------------
(* SpecTab: tabs between written characters on a row wide enough to hold a *)
(* tab stop (column 8) and columns after it, up to the pending wrap.       *)

TabCols == 10
TabSteps == 5

TabChunks == { <<120>>, <<9>>, <<8>>, <<13>> }      \* x TAB BS CR

InitTab ==
    /\ Constructed({<<TabCols, 1>>}, TabSteps)
    /\ base = Current
    /\ fed = <<>>
    /\ PtyIdle

NextTab ==
    \E data \in TabChunks :
       Process(data) /\ UNCHANGED <<resumeVars, ptyVars>>

SpecTab == InitTab /\ [][NextTab]_vars

\* C26 (as claimed): tab() advances the cursor: in every reachable state,
\* after tab() cursor_x equals min(next multiple of 8 strictly above the old
\* cursor_x, cols-1), cursor_x is never lower than before the call, and
\* cursor_y and all cells are unchanged.
C26_TabAdvances ==
    ByteIn({"Ground"}, {9}) =>
       LET b == Before.grid
       IN  /\ grid.cursor_x = Min(((b.cursor_x \div 8) + 1) * 8, b.cols - 1)
           /\ grid.cursor_x >= b.cursor_x
           /\ grid.cursor_y = b.cursor_y
           /\ grid.cells = b.cells

----------------------------------------------------------------------------
(* SpecSgr: SGR sequences, each in one chunk, whose parameter list holds   *)
(* an extended colour (or an unrecognized code) between ordinary codes.    *)
(* The palette indices and colour components include values that are SGR   *)
(* codes themselves (0, 1), so that a parameter taken for a code shows.    *)

SgrSteps == 2

\* the decimal digits of n
RECURSIVE DecimalText(_)
DecimalText(n) ==
    IF n < 10 THEN <<48 + n>>
    ELSE DecimalText(n \div 10) \o <<48 + (n % 10)>>

\* the parameters of a list, in decimal, separated by ';'
RECURSIVE ParamsText(_)
ParamsText(params) ==
    IF params = <<>> THEN <<>>
    ELSE IF Len(params) = 1 THEN DecimalText(params[1])
    ELSE DecimalText(params[1]) \o <<Semicolon>> \o ParamsText(Tail(params))

\* ESC [ params m
Sgr(params) == Introducer \o ParamsText(params) \o <<109>>

\* palette indices: two of the palette, and the first one outside it
PaletteIndices == {1, 15, 16}
\* r, g, b
ColourTriples == { <<0, 0, 0>>, <<0, 0, 1>>, <<1, 1, 1>>, <<255, 1, 0>> }
\* codes without an arm in process_sgr
UnrecognizedCodes == {5, 99}

\* 38 or 48 with 5;n or 2;r;g;b, or an unrecognized code
SgrGroups ==
    { <<sel, 5, n>> : sel \in {38, 48}, n \in PaletteIndices }
    \cup { <<sel, 2>> \o t : sel \in {38, 48}, t \in ColourTriples }
    \cup { <<u>> : u \in UnrecognizedCodes }

\* what comes before the group (nothing, bold) and after (nothing, underline)
SgrBefore == { <<>>, <<1>> }
SgrAfter == { <<>>, <<4>> }

SgrLists == { pre \o grp \o post : pre \in SgrBefore, grp \in SgrGroups, post \in SgrAfter }

SgrChunks == { Sgr(params) : params \in SgrLists }

InitSgr ==
    /\ Constructed({<<2, 1>>}, SgrSteps)
    /\ base = Current
    /\ fed = <<>>
    /\ PtyIdle

NextSgr ==
    \E data \in SgrChunks :
       Process(data) /\ UNCHANGED <<resumeVars, ptyVars>>

SpecSgr == InitSgr /\ [][NextSgr]_vars

\* the pen after the ordinary codes of SgrBefore and SgrAfter
WithPlain(codes, style) ==
    IF codes = <<1>> THEN [style EXCEPT !.bold = TRUE]
    ELSE IF codes = <<4>> THEN [style EXCEPT !.underline = TRUE]
    ELSE style

\* the colour a group selects: palette[n] for 5;n with n < 16, the true
\* colour for 2;r;g;b, none (old) otherwise
GroupColour(grp, old) ==
    IF Len(grp) = 3 THEN (IF grp[3] < 16 THEN ANSI_COLORS[grp[3] + 1] ELSE old)
    ELSE IF Len(grp) = 5 THEN TrueColor(grp[3], grp[4], grp[5])
    ELSE old

\* the pen after a group and nothing else
WithGroup(grp, style) ==
    IF grp[1] = 38 THEN [style EXCEPT !.fg = GroupColour(grp, style.fg)]
    ELSE IF grp[1] = 48 THEN [style EXCEPT !.bg = GroupColour(grp, style.bg)]
    ELSE style

\* C27: SGR extended colour: in a parameter list, 38;5;n with n < 16 sets
\* the foreground to palette[n] and 38;2;r;g;b sets a true-colour
\* foreground (48 likewise for the background); the parameters of the
\* extended form (5;n, respectively 2;r;g;b) are skipped and not applied as
\* SGR codes, and the scan continues with the parameter after them;
\* unrecognized codes change nothing and do not stop the scan.
C27_ExtendedColour ==
    \A pre \in SgrBefore : \A grp \in SgrGroups : \A post \in SgrAfter :
       (last.op = "process" /\ last.data = Sgr(pre \o grp \o post)) =>
          grid = [last.grid EXCEPT
                    !.current_style =
                       WithPlain(post, WithGroup(grp, WithPlain(pre, @)))]

\* C27 witness: ESC [ 1 ; 38 ; 2 ; 0 ; 0 ; 1 ; 4 m on a pen with a palette
\* background: true-colour foreground (0, 0, 1), bold from the 1 before
\* the group, underline from the 4 after it, and the background kept (the
\* 0 of the colour did not reset the pen)
C27_Witness ==
    /\ last.op = "process"
    /\ last.data = Sgr(<<1, 38, 2, 0, 0, 1, 4>>)
    /\ last.grid.current_style.bg = ANSI_COLORS[2]
    /\ ~last.grid.current_style.bold
    /\ grid.current_style.fg = TrueColor(0, 0, 1)
    /\ grid.current_style.bg = ANSI_COLORS[2]
    /\ grid.current_style.bold /\ grid.current_style.underline

----------------------------------------------------------------------------
(* SpecOsc: OSC sequences (ESC ] payload terminator), their payload made   *)
(* of bytes that would write, erase or scroll in Ground, on a grid with    *)
(* written cells, a coloured pen and a scrollback.                         *)

OscSteps == 4

\* ESC ]
OscIntroducer == <<ESC, 93>>

\* 0 ; x, and LF and BS for the control bytes
OscPayload == {48, Semicolon, 120, 10, 8}

OscChunks ==
    { Setup, OscIntroducer, <<BEL>>, <<ESC>> }
    \cup { <<byte>> : byte \in OscPayload }

InitOsc ==
    /\ Constructed({<<2, 1>>}, OscSteps)
    /\ base = Current
    /\ fed = <<>>
    /\ PtyIdle

NextOsc ==
    \E data \in OscChunks :
       Process(data) /\ UNCHANGED <<resumeVars, ptyVars>>

SpecOsc == InitOsc /\ [][NextOsc]_vars

OscTerminators == {BEL, ESC}

\* C28: OSC payload is discarded: while the parser is in Osc every byte
\* other than 0x07 and 0x1b leaves the grid and the parser state unchanged,
\* and 0x07 or 0x1b returns the parser to Ground without changing the grid.
C28_OscPayloadDiscarded ==
    /\ ByteIn({"Osc"}, Bytes) =>
          /\ grid = Before.grid
          /\ FinalByte \notin OscTerminators => parser = Before.parser
          /\ FinalByte \in OscTerminators => parser.state = "Ground"
    /\ parser.state = "Osc" =>
          \A byte \in Bytes :
             LET st == process_byte(Current, byte)
             IN  /\ st.grid = grid
                 /\ byte \notin OscTerminators => st.parser = parser
                 /\ byte \in OscTerminators => st.parser.state = "Ground"

\* C28 witness: a line feed inside an OSC sequence, on a one-row grid with
\* a written cell, scrolled nothing and left the parser in Osc
C28_Witness ==
    /\ ByteIn({"Osc"}, {10})
    /\ parser.state = "Osc"
    /\ grid = Before.grid
    /\ grid.cells[1][1].c = 120
    /\ Len(grid.scrollback) = 1
    /\ grid.current_style.fg = ANSI_COLORS[2]

----------------------------------------------------------------------------
(* SpecScrollback: the erasing, cursor-moving, pen-setting sequences and   *)
(* resizes on a grid that has rows in its scrollback.                      *)

SbSteps == 4

\* ESC [ 2 J, ESC [ J, ESC [ K, ESC [ 2 K, ESC [ H
EraseAll == <<ESC, 91, 50, 74>>
EraseBelow == <<ESC, 91, 74>>
EraseToEol == <<ESC, 91, 75>>
EraseLine == <<ESC, 91, 50, 75>>
Home == <<ESC, 91, 72>>

\* the sequences that reach clear, clear_to_end_of_screen,
\* clear_to_end_of_line, clear_line, move_cursor, move_cursor_relative and
\* process_sgr
NonScrolling == { EraseAll, EraseBelow, EraseToEol, EraseLine, Home, Up, Red, FullReset }

ScrollbackChunks == { <<120>>, <<10>> } \cup NonScrolling

ScrollbackSizes == { <<2, 1>>, <<1, 2>>, <<2, 2>> }

InitScrollback ==
    /\ Constructed({<<2, 1>>, <<2, 2>>}, SbSteps)
    /\ base = Current
    /\ fed = <<>>
    /\ PtyIdle

NextScrollback ==
    \/ \E data \in ScrollbackChunks :
         Process(data) /\ UNCHANGED <<resumeVars, ptyVars>>
    \/ \E d \in ScrollbackSizes :
         WindowResized(d[1], d[2]) /\ UNCHANGED <<resumeVars, ptyVars>>

SpecScrollback == InitScrollback /\ [][NextScrollback]_vars

\* C29: scrollback is changed only by scrolling: clear(),
\* clear_to_end_of_line(), clear_to_end_of_screen(), clear_line(y),
\* resize(), the cursor moves and SGR leave the scrollback's length and
\* every row in it unchanged - as does every byte that does not scroll.
C29_ScrollbackOnlyByScroll ==
    /\ last.op = "resize" => grid.scrollback = last.grid.scrollback
    /\ (last.op = "process" /\ last.data \in NonScrolling
          /\ last.parser.state = "Ground") =>
          grid.scrollback = last.grid.scrollback
    /\ (last.op = "process" /\ Len(last.data) >= 1 /\ ~Scrolled) =>
          grid.scrollback = Before.grid.scrollback

\* C29 witness: ESC [ 2 J cleared a screen with a written cell while a
\* written row was in the scrollback: the row is still there
C29_Witness ==
    /\ last.op = "process" /\ last.data = EraseAll
    /\ \E y \in 1..Len(last.grid.cells) : last.grid.cells[y] # BlankRow(last.grid.cols)
    /\ AllDefault(grid)
    /\ Len(grid.scrollback) = 1
    /\ grid.scrollback[1][1].c = 120

----------------------------------------------------------------------------
(* SpecWindow: the window's physical size, at construction and at every    *)
(* resize event: zero, smaller than the padding, just enough for one cell, *)
(* and larger.  No output is pending in the channel, so a turn of the main *)
(* loop is its event handler.                                              *)

WinSteps == 2

\* widths: 0, 1, one less than the padding, the padding, one cell and the
\* padding, and the width at start; heights likewise
WindowWidths ==
    { 0, 1, PADDING_X * 2 - 1, PADDING_X * 2, PADDING_X * 2 + CELL_WIDTH, DEFAULT_WIDTH }
WindowHeights ==
    { 0, 1, PADDING_Y * 2 - 1, PADDING_Y * 2 + CELL_HEIGHT, DEFAULT_HEIGHT,
      PADDING_Y * 2 + CELL_HEIGHT * 2 }

\* main.rs before the loop: the renderer takes the size of the window
\* (not zero in either direction), the grid the dimensions it computes
InitWindow ==
    /\ \E w \in WindowWidths \ {0} : \E h \in WindowHeights \ {0} :
          renderer = [width |-> w, height |-> h]
    /\ Constructed({grid_dimensions(renderer)}, WinSteps)
    /\ base = Current
    /\ fed = <<>>
    /\ queue = <<>>
    /\ reader = [pc |-> "read", msg |-> Exit(0), ended |-> "no"]
    /\ main = "drain"
    /\ readlog = <<>>
    /\ processed = <<>>
    /\ turn = TurnStart(<<>>)
    /\ obs = ObsNone

\* a turn of the main loop on WindowEvent::Resized(physical_size)
Resized(width, height) ==
    /\ steps > 0
    /\ ~grid.panic
    /\ \E ok \in BOOLEAN :
         LET h == on_resized(renderer, grid, width, height, ok)
         IN  /\ renderer' = h.renderer
             /\ grid' = h.grid
             /\ obs' = [obs EXCEPT !.request = h.request]
    /\ parser' = parser
    /\ last' = Call("resized", <<width, height>>)
    /\ steps' = steps - 1
    /\ UNCHANGED <<resumeVars, queue, reader, main, readlog, processed, turn>>

NextWindow ==
    \/ \E w \in WindowWidths : \E h \in WindowHeights : Resized(w, h)
    \/ Process(<<120>>) /\ UNCHANGED <<resumeVars, ptyVars>>

SpecWindow == InitWindow /\ [][NextWindow]_vars

\* C30: the callers keep the grid non-degenerate: in every reachable state
\* of the main loop, at construction and after every window-resize event
\* of any size (including sizes smaller than the padding and zero-sized
\* windows), the grid has cols >= 1 and rows >= 1.
C30_GridNonDegenerate ==
    /\ grid.cols >= 1 /\ grid.rows >= 1
    /\ Len(grid.cells) >= 1
    /\ \A y \in 1..Len(grid.cells) : Len(grid.cells[y]) >= 1
    /\ last.op = "resized" =>
          /\ resize(last.grid, grid.cols, grid.rows) = grid
          /\ (last.data[1] = 0 \/ last.data[2] = 0) =>
                (grid.cols = last.grid.cols /\ grid.rows = last.grid.rows)

\* C30 witness: a window of two columns with a written cell was resized to
\* a width smaller than the padding: the grid keeps one column
C30_Witness ==
    /\ last.op = "resized"
    /\ last.data[1] > 0 /\ last.data[1] < PADDING_X * 2
    /\ last.data[2] > 0
    /\ last.grid.cols > 1
    /\ grid.cols = 1
    /\ grid.cells[1][1].c = 120

----------------------------------------------------------------------------
(* SpecAbandon: sequences cut short.  ESC and ESC [ with parameters and    *)
(* intermediates pending, met by control bytes, printable bytes and bytes  *)
(* above 0x7f, on a grid whose cursor stands after a written character so  *)
(* that each of those bytes would show if ground handled it.               *)

AbandonSteps == 4

\* ESC alone, ESC [, and what may follow ESC [ before its final byte
Openers == { <<ESC>>, Introducer, <<50>>, <<Semicolon>>, <<63>> }

\* BS TAB LF CR, x, the first byte of a UTF-8 pair, NUL and BEL
AbandoningBytes == {8, 9, 10, 13, 120, 195, 0, BEL}

AbandonChunks == Openers \cup { <<byte>> : byte \in AbandoningBytes }

InitAbandon ==
    /\ Constructed({<<3, 2>>}, AbandonSteps)
    /\ base = Current
    /\ fed = <<>>
    /\ PtyIdle

NextAbandon ==
    \E data \in AbandonChunks :
       Process(data) /\ UNCHANGED <<resumeVars, ptyVars>>

SpecAbandon == InitAbandon /\ [][NextAbandon]_vars

\* the bytes escape has an arm for: [ ] c D E M
EscapeArms == {91, 93, 99, 68, 69, 77}

\* the bytes csi has an arm for: digits, ';', '?', '>', '!', and the finals
\* A B C D H f J K m r h l c n
CsiArms ==
    Digits \cup {Semicolon} \cup Intermediates \cup CommandFinals
           \cup {114, 104, 108, 99, 110}

\* byte abandons the sequence pending in parser state pstate
Abandons(pstate, byte) ==
    \/ pstate = "Escape" /\ byte \notin EscapeArms
    \/ pstate \in InCsi /\ byte \notin CsiArms

\* C31: a byte that abandons a sequence is consumed without being
\* executed: in Escape every byte other than [ ] c D E M, and in Csi or
\* CsiParam every byte that is neither a parameter byte nor a recognized
\* final (LF, CR, BS and ESC among them), leaves the grid as it was and
\* the parser in Ground, so it is not handled as ground input as well.
C31_AbandoningByteNotExecuted ==
    /\ \A byte \in Bytes :
         Abandons(parser.state, byte) =>
            LET after == process_byte(Current, byte)
            IN  after.grid = grid /\ after.parser.state = "Ground"
    /\ (last.op = "process" /\ Len(last.data) >= 1
          /\ Abandons(Before.parser.state, FinalByte)) =>
            (grid = Before.grid /\ parser.state = "Ground")

\* C31 witness: ESC [ 2 was cut short by LF after a character was written:
\* the cursor stays after that character, on the first row, where ground
\* would have moved it to the start of the second
C31_Witness ==
    /\ ByteIn({"CsiParam"}, {10})
    /\ Before.parser.current_param = 2
    /\ grid = Before.grid
    /\ grid.cells[1][1].c = 120
    /\ grid.cursor_x = 1 /\ grid.cursor_y = 0
    /\ ground(Current, 10).grid # grid
    /\ parser.state = "Ground"

----------------------------------------------------------------------------
(* SpecExtended: SGR lists with an extended-colour introducer (38 or 48    *)
(* followed by 5 or 2), complete and cut short by the end of the list,     *)
(* whose sub-parameters are values that are SGR codes of their own (0, 1,  *)
(* 3, 4, 7) and palette indices on both sides of 16.                       *)

ExtSteps == 2

\* 5;n and 2;r;g;b in full
CompleteForms == { <<5, 1>>, <<5, 16>>, <<5, 200>>, <<2, 1, 4, 7>>, <<2, 0, 3, 1>> }

\* 5 and 2 with the list ending before the colour is complete
IncompleteForms == { <<5>>, <<2>>, <<2, 1>>, <<2, 1, 4>>, <<2, 0>>, <<2, 7, 3>> }

\* what comes before the introducer: nothing, bold, a palette background
ExtBefore == { <<>>, <<1>>, <<44>> }

\* what comes after a complete form: nothing, underline
ExtAfter == { <<>>, <<4>> }

\* the lists: before, 38 or 48, a form, and after; an incomplete form ends
\* the list
ExtLists ==
    { pre \o <<sel>> \o form \o post :
        pre \in ExtBefore, sel \in {38, 48}, form \in CompleteForms, post \in ExtAfter }
    \cup { pre \o <<sel>> \o form :
        pre \in ExtBefore, sel \in {38, 48}, form \in IncompleteForms }

ExtChunks == { Sgr(params) : params \in ExtLists }

InitExtended ==
    /\ Constructed({<<2, 1>>}, ExtSteps)
    /\ base = Current
    /\ fed = <<>>
    /\ PtyIdle

NextExtended ==
    \E data \in ExtChunks :
       Process(data) /\ UNCHANGED <<resumeVars, ptyVars>>

SpecExtended == InitExtended /\ [][NextExtended]_vars

\* the attributes and the colour that the introducer sel does not select
\* are the same in pens s and t
SameButColour(sel, s, t) ==
    /\ s.bold = t.bold /\ s.italic = t.italic
    /\ s.underline = t.underline /\ s.inverse = t.inverse
    /\ (sel = 38 => s.bg = t.bg)
    /\ (sel = 48 => s.fg = t.fg)

\* the last chunk was ESC [ pre ; sel ; form ; post m and the pen's
\* attributes and other colour are those the scan of pre ; post alone
\* leaves
AsIfAbsent(pre, sel, form, post) ==
    (last.op = "process" /\ last.data = Sgr(pre \o <<sel>> \o form \o post)) =>
       SameButColour(sel, grid.current_style,
                     sgr_loop(pre \o post, 0, last.grid.current_style))

\* C32 (as claimed): the sub-parameters of an extended-colour introducer
\* are never applied as SGR codes of their own: for every list in which 38
\* or 48 is followed by 5 or 2, complete or not, and whatever the palette
\* index, bold, italic, underline, inverse and the other colour are what
\* they would be with the introducer and its parameters absent.
C32_SubParametersNeverApplied ==
    \A pre \in ExtBefore : \A sel \in {38, 48} :
       /\ \A form \in CompleteForms : \A post \in ExtAfter :
             AsIfAbsent(pre, sel, form, post)
       /\ \A form \in IncompleteForms :
             AsIfAbsent(pre, sel, form, <<>>)

----------------------------------------------------------------------------
(* SpecOscEnd: whole OSC sequences, each handed over in one chunk and      *)
(* ended by BEL or by the string terminator ESC \, between written         *)
(* characters, line feeds and a pen change.                                *)

OscEndCols == 2
OscEndRows == 2
OscEndSteps == 4

\* ESC \, the two-byte string terminator
StringTerminator == <<ESC, 92>>

\* the ways a sequence is ended
OscEndings == { <<BEL>>, StringTerminator }

\* nothing, "0;x", and a line feed
OscTexts == { <<>>, <<48, Semicolon, 120>>, <<10>> }

\* ESC ] text ending
OscSequence(text, ending) == OscIntroducer \o text \o ending

OscEndChunks ==
    { <<120>>, <<10>>, Red }
    \cup { OscSequence(text, ending) : text \in OscTexts, ending \in OscEndings }

InitOscEnd ==
    /\ Constructed({<<OscEndCols, OscEndRows>>}, OscEndSteps)
    /\ base = Current
    /\ fed = <<>>
    /\ PtyIdle

NextOscEnd ==
    \E data \in OscEndChunks :
       Process(data) /\ UNCHANGED <<resumeVars, ptyVars>>

SpecOscEnd == InitOscEnd /\ [][NextOscEnd]_vars

\* the last chunk was the sequence ESC ] text ending, and cells, cursor,
\* pen and scrollback are as it found them, with the parser in Ground
OscLeavesGrid(text, ending) ==
    (last.op = "process" /\ last.data = OscSequence(text, ending)) =>
       (grid = last.grid /\ parser.state = "Ground")

\* C33 (as claimed): a complete OSC sequence never writes to the grid
\* whichever terminator ends it: ESC ] payload BEL and ESC ] payload ESC \
\* both leave cells, cursor, pen and scrollback unchanged and the parser
\* in Ground.
C33_OscNeverWrites ==
    \A text \in OscTexts : \A ending \in OscEndings : OscLeavesGrid(text, ending)

----------------------------------------------------------------------------
(* SpecFlood: the reader thread and the main loop with a child that never  *)
(* stops writing.  The reader reads without end, so the records of what    *)
(* was read, sent, received and processed are left as they are; parser,    *)
(* grid, channel and both positions are kept.  Each thread is scheduled    *)
(* fairly: whichever of its steps stays possible is eventually taken.      *)

\* read_loop: Ok(n) => the chunk is to be sent as Output
FloodRead(data) ==
    /\ reader.pc = "read"
    /\ reader' = [pc |-> "send", msg |-> Output(data), ended |-> "no"]
    /\ UNCHANGED <<coreVars, resumeVars, queue, main, readlog, processed,
                   renderer, turn, obs>>

\* tx.send(..) with the receiver alive: blocks while the channel is full
FloodSend ==
    /\ reader.pc = "send"
    /\ main # "exited"
    /\ CanSend(queue)
    /\ queue' = Append(queue, reader.msg)
    /\ reader' = [reader EXCEPT !.pc = AfterSend]
    /\ UNCHANGED <<coreVars, resumeVars, main, readlog, processed, renderer,
                   turn, obs>>

\* let _ = tx.send(..) once the main loop is gone: Err, ignored
FloodSendDisconnected ==
    /\ reader.pc = "send"
    /\ main = "exited"
    /\ reader' = [reader EXCEPT !.pc = AfterSend]
    /\ UNCHANGED <<coreVars, resumeVars, queue, main, readlog, processed,
                   renderer, turn, obs>>

\* drain loop: Ok(PtyEvent::Output(data)) => parser.process(&data, &mut grid)
FloodRecvOutput ==
    /\ main = "drain"
    /\ ~grid.panic
    /\ queue # <<>>
    /\ Head(queue).kind = "Output"
    /\ queue' = Tail(queue)
    /\ LET st == process(Current, Head(queue).data)
       IN  /\ parser' = st.parser
           /\ grid' = st.grid
    /\ last' = Call("process", Head(queue).data)
    /\ turn' = [turn EXCEPT !.pending = saturating_sub(@, 1)]
    /\ UNCHANGED <<steps, resumeVars, reader, main, readlog, processed,
                   renderer, obs>>

\* drain loop: Ok(PtyEvent::Exit(_)) => elwt.exit(); return
FloodRecvExit ==
    /\ main = "drain"
    /\ queue # <<>>
    /\ Head(queue).kind = "Exit"
    /\ queue' = Tail(queue)
    /\ main' = "exited"
    /\ UNCHANGED <<coreVars, resumeVars, reader, readlog, processed, renderer,
                   turn, obs>>

InitFlood ==
    /\ Constructed({grid_dimensions(RendererNew)}, 0)
    /\ base = Current
    /\ fed = <<>>
    /\ PtyIdle

NextFlood ==
    \/ \E data \in PtyData : FloodRead(data)
    \/ \E ended \in ReadEnds : ReaderEnd(ended)
    \/ FloodSend
    \/ FloodSendDisconnected
    \/ FloodRecvOutput
    \/ FloodRecvExit
    \/ MainRecvNothing
    \/ EventCloseRequested
    \/ EventRedrawRequested
    \/ EventOther

\* the steps of the reader thread
FloodReaderStep ==
    \/ \E data \in PtyData : FloodRead(data)
    \/ \E ended \in ReadEnds : ReaderEnd(ended)
    \/ FloodSend
    \/ FloodSendDisconnected

\* the steps of the main loop
FloodMainStep ==
    \/ FloodRecvOutput
    \/ FloodRecvExit
    \/ MainRecvNothing
    \/ EventCloseRequested
    \/ EventRedrawRequested
    \/ EventOther

SpecFlood ==
    /\ InitFlood
    /\ [][NextFlood]_vars
    /\ WF_vars(FloodReaderStep)
    /\ WF_vars(FloodMainStep)

\* C34 (as claimed): rendering is not starved by output: in every turn of
\* the main loop the drain phase ends after finitely many dequeues - the
\* queue is seen empty, or Exit or Disconnected is received - and the loop
\* goes on to its event, so that a requested redraw is eventually
\* rendered even while the reader keeps producing chunks.
C34_DrainPhaseEnds == (main = "drain") ~> (main # "drain")

----------------------------------------------------------------------------
(* SpecProgress: the reader thread and the main loop of SpecPty, each      *)
(* scheduled fairly: a thread that can take a step eventually takes one    *)
(* (the reader's send counts as possible only while the channel has room   *)
(* or the receiver is gone).                                               *)

\* the steps of the reader thread
ReaderStep ==
    \/ \E data \in PtyData : ReaderRead(data)
    \/ \E ended \in ReadEnds : ReaderEnd(ended)
    \/ ReaderSend
    \/ ReaderSendDisconnected

\* the steps of the main loop
MainStep ==
    \/ MainRecvOutput
    \/ MainRecvExit
    \/ MainRecvNothing
    \/ EventCloseRequested
    \/ EventRedrawRequested
    \/ EventOther

\* both threads; of the events, those that leave the grid's size alone
NextProgress ==
    \/ \E data \in PtyData : ReaderRead(data)
    \/ \E ended \in ReadEnds : ReaderEnd(ended)
    \/ ReaderSend
    \/ ReaderSendDisconnected
    \/ MainRecvOutput
    \/ MainRecvExit
    \/ MainRecvNothing
    \/ EventCloseRequested
    \/ EventRedrawRequested
    \/ EventOther

SpecProgress ==
    /\ InitPty
    /\ [][NextProgress]_vars
    /\ WF_vars(ReaderStep)
    /\ WF_vars(MainStep)

\* the reader waits in send for room in the channel
Blocked == reader.pc = "send" /\ main # "exited" /\ ~CanSend(queue)

\* the chunks put in the channel so far
Enqueued == Len(processed) + Len(OutputsOf(queue))

====
